---- MODULE Spec2Model ----
(***************************************************************************)
(* Verification model of the tiled LU factorization driver getrf_ca and    *)
(* its companions (slate).  Every MPI rank runs the same driver; the tile  *)
(* store (ownership, broadcast, device holds) is an external collaborator  *)
(* whose contract is taken from the specification.                         *)
(*                                                                         *)
(* A tile's content is represented by the ordered history of the kernel    *)
(* operations applied to it; two tiles are equal when their histories are. *)
(***************************************************************************)
EXTENDS Integers, Sequences, FiniteSets, TLC

\* ------------------------------------------------------------------ bounds
\* largest tile-grid dimension (A.mt(), A.nt() range over 1..MaxT)
MaxT == 3
\* tile block size (rows/columns of a full tile)
NB == 2

VARIABLES
    cfg,       \* the call's inputs: grid, tile shape, options, process grid
    pc,        \* pc[p]: where rank p stands in getrf_ca
    pivots,    \* pivots[p]: rank p's copy of the Pivots table
    A,         \* A[<<i,j>>]: history of the authoritative tile A(i,j)
    Awork,     \* Awork[p]: tiles of the panel workspace present on rank p
    pivmsg,    \* pivmsg[k+1]: payload of MPI_Bcast for panel k once the root entered it
    msgs,      \* tile messages sent and not yet received
    copies,    \* copies[p][<<i,j>>]: the copy of a remote tile rank p received
    holds,     \* holds[p]: tiles held on rank p's device
    log,       \* log[p]: the operations rank p has completed, in order
    reads,     \* reads[p]: what every solve/multiply of rank p read
    bcastLog,  \* every broadcast entry issued so far, with its tag
    panelIn,   \* panelIn[<<i,k>>]: content of A(i,k) when its owner factored panel k
    call,      \* the call of the public routine: options, parsed arguments, progress
    tr         \* the call of trsm: views, options, tasks created, running and completed

\* the state of the factorization driver on all ranks
driver == <<cfg, pc, pivots, A, Awork, pivmsg, msgs, copies, holds, log, reads,
            bcastLog, panelIn>>

vars == <<driver, call, tr>>

\* ----------------------------------------------------------------- helpers
Min(a, b) == IF a < b THEN a ELSE b

Sub(i1, i2, j1, j2) == {<<i, j>> : i \in i1..i2, j \in j1..j2}

NoCopy == << <<"nocopy", 0, <<>> >> >>

\* ------------------------------------------------------- the call's inputs
A_mt == cfg.mt
A_nt == cfg.nt
min_mt_nt == Min(A_mt, A_nt)
lookahead == cfg.lookahead
target == cfg.target
is_shared == lookahead > 0

Procs == 0 .. (cfg.p * cfg.q - 1)
Tiles == Sub(0, A_mt - 1, 0, A_nt - 1)

\* 2D block-cyclic ownership over a p x q process grid
tileRank(i, j) == (i % cfg.p) + (j % cfg.q) * cfg.p

tileIsLocal(p, i, j) == tileRank(i, j) = p

tileMb(i) == IF i = A_mt - 1 THEN cfg.mbLast ELSE cfg.nb
tileNb(j) == IF j = A_nt - 1 THEN cfg.nbLast ELSE cfg.nb

\* the local tiles of A.sub(i1, i2, j1, j2) on rank p
LocalIn(p, i1, i2, j1, j2) == {t \in Sub(i1, i2, j1, j2) : tileIsLocal(p, t[1], t[2])}

\* ------------------------------------------------------------ control flow
At(p, s) == pc[p].step = s
Goto(p, s, k, j) == pc' = [pc EXCEPT ![p] = [step |-> s, k |-> k, j |-> j]]
GotoPc(p, x) == pc' = [pc EXCEPT ![p] = x]
Pc(s, k, j) == [step |-> s, k |-> k, j |-> j]

priority_one == 1
priority_zero == 0

\* mutant: the trailing kernels are issued with priority_one too
Priority_trailingHigh(op) ==
    IF op \in {"factor", "ppermute", "ptrsm", "lperm", "ltrsm", "lgemm",
               "tperm", "ttrsm", "tgemm"}
    THEN {priority_one} ELSE {}

\* the priority argument of the internal:: call behind each step, {} for a
\* step whose call takes none
Priority(op) ==
    IF op \in {"factor", "ppermute", "ptrsm", "lperm", "ltrsm", "lgemm"} THEN {priority_one}
    ELSE IF op \in {"tperm", "ttrsm", "tgemm"} THEN {priority_zero}
    ELSE {}

\* mutant: the lookahead column j is given queue j-k
queue_index_fromOne(op, k, j) ==
    IF op \in {"ppermute", "ptrsm"} THEN {0}
    ELSE IF op \in {"lperm", "ltrsm", "lgemm"} THEN {j - k}
    ELSE IF op \in {"tperm", "ttrsm", "tgemm"} THEN {1}
    ELSE {}

\* the queue_index argument of the internal:: call behind each step (the last
\* argument of permuteRows, trsm and gemm), {} for a step whose call takes none
queue_index(op, k, j) ==
    IF op \in {"ppermute", "ptrsm"} THEN {0}
    ELSE IF op \in {"lperm", "ltrsm", "lgemm"} THEN {j - k + 1}
    ELSE IF op \in {"tperm", "ttrsm", "tgemm"} THEN {1}
    ELSE {}

Ev(op, k, j1, j2) ==
    [op |-> op, k |-> k, j1 |-> j1, j2 |-> j2,
     priority |-> Priority(op), queue |-> queue_index(op, k, j1)]
Log(p, e) == log' = [log EXCEPT ![p] = Append(@, e)]

\* mutant: the loop over the panels is left at the first zero pivot
NextPanel_stopAtZero(k) ==
    IF k + 1 < min_mt_nt /\ k \notin cfg.zero THEN Pc("alloc", k + 1, k + 1)
    ELSE Pc("origin", 0, 0)

\* for (k = 0; k < min_mt_nt; ++k): what follows the body of iteration k
NextPanel(k) ==
    IF k + 1 < min_mt_nt THEN Pc("alloc", k + 1, k + 1) ELSE Pc("origin", 0, 0)

\* if (target == Devices) { task release diag; if (is_shared) task release panel }
AfterRelDiag(k) ==
    IF is_shared THEN Pc("relpanel", k, k) ELSE NextPanel(k)

AfterTrailing(k) ==
    IF target = "Devices" THEN Pc("reldiag", k, k) ELSE NextPanel(k)

\* mutant: the trailing update starts one column after the lookahead window
TrailingFirst_gap(k) == k + 2 + lookahead

\* mutant: the trailing update starts at column k+1, ignoring the lookahead
TrailingFirst_noLookahead(k) == k + 1

\* if (k+1+lookahead < A_nt) { trailing update }
TrailingFirst(k) == k + 1 + lookahead

\* mutant: the trailing update is never issued
AfterLookahead_noTrailing(k) == AfterTrailing(k)

AfterLookahead(k) ==
    IF TrailingFirst(k) < A_nt THEN Pc("tperm", k, TrailingFirst(k))
    ELSE AfterTrailing(k)

\* mutant: the lookahead loop runs one column too far (j <= k+1+lookahead)
LookaheadCond_le(k, j) == j <= k + 1 + lookahead /\ j < A_nt

\* for (j = k+1; j < k+1+lookahead && j < A_nt; ++j)
LookaheadCond(k, j) == j < k + 1 + lookahead /\ j < A_nt

LookaheadLoop(k, j) ==
    IF LookaheadCond(k, j) THEN Pc("lperm", k, j) ELSE AfterLookahead(k)

\* mutant: the columns left of the panels are never permuted
LeftLoop_none(k) == Pc("clearws", 0, 0)

\* for (k = 0; k < min_mt_nt; ++k) of the pivot-to-the-left loop
LeftLoop(k) ==
    IF k < min_mt_nt THEN Pc("left", k, 0) ELSE Pc("clearws", 0, 0)

\* ------------------------------------------------------------------ layouts
\* Layout host_layout = Layout::ColMajor
host_layout == "ColMajor"

\* mutant: the target layout is never switched to RowMajor
target_layout_col == "ColMajor"

\* Layout target_layout = Layout::ColMajor; if (target == Target::Devices) target_layout = Layout::RowMajor
target_layout == IF target = "Devices" THEN "RowMajor" ELSE "ColMajor"

\* the layout argument of the permuteRows call that logs the event op: the
\* panel, the trailing and the left calls pass host_layout, the lookahead call
\* passes target_layout
PermuteLayout(op) == IF op = "lperm" THEN target_layout ELSE host_layout

\* ------------------------------------------------------------- tile store
\* the history of every tile of S extended by op
ApplyOp(S, op) == [t \in Tiles |-> IF t \in S THEN Append(A[t], op) ELSE A[t]]

\* what rank p sees of tile t: the tile itself when local, else the copy received
Source(p, t) == IF tileIsLocal(p, t[1], t[2]) THEN A[t] ELSE copies[p][t]

Rd(p, op, k, t) ==
    [op |-> op, k |-> k, j |-> pc[p].j, tile |-> t, data |-> Source(p, t),
     held |-> t \in holds[p]]

Read(p, R) == reads' = [reads EXCEPT ![p] = @ \cup R]

\* broadcast entries: source tile, destination tiles, tag
Entry(stage, k, i, j, dests, tag) ==
    [b |-> <<stage, k, i, j>>, tile |-> <<i, j>>, dests |-> dests, tag |-> tag]

Root(e) == tileRank(e.tile[1], e.tile[2])
DestRanks(e) == {tileRank(t[1], t[2]) : t \in e.dests}
Incoming(p, E) == {e \in E : Root(e) # p /\ p \in DestRanks(e)}
Outgoing(p, E) == {e \in E : Root(e) = p}

\* rank p runs a broadcast call over the entries E: it sends the tiles it owns
\* to the ranks of their destinations and blocks until the tiles it is a
\* destination of have arrived
DoBcast(p, E) ==
    /\ \A e \in Incoming(p, E) : \E m \in msgs : m.b = e.b /\ m.to = p
    /\ msgs' = (msgs \ {m \in msgs : m.to = p /\ m.b \in {e.b : e \in Incoming(p, E)}})
                 \cup UNION {{[b |-> e.b, tile |-> e.tile, tag |-> e.tag, from |-> p,
                               to |-> r, data |-> A[e.tile]] : r \in DestRanks(e) \ {p}} :
                             e \in Outgoing(p, E)}
    /\ copies' = [copies EXCEPT ![p] =
                    [t \in Tiles |->
                        IF \E e \in Incoming(p, E) : e.tile = t
                        THEN (CHOOSE m \in msgs : m.to = p /\ m.tile = t
                                /\ m.b \in {e.b : e \in Incoming(p, E)}).data
                        ELSE @[t]]]
    /\ bcastLog' = bcastLog \cup {[b |-> e.b, tag |-> e.tag] : e \in E}

\* a shared-mode broadcast to devices leaves a hold on the received tile on
\* every rank that owns a destination tile
Hold(p, E, shared) ==
    holds' = [holds EXCEPT ![p] =
                IF target = "Devices" /\ shared
                THEN @ \cup {e.tile : e \in {x \in E : p \in DestRanks(x)}}
                ELSE @]

\* mutant: the panel tiles are broadcast in single-use mode whatever lookahead is
BcastShared_panelNever(stage) == stage = "diag"

\* the is_shared argument of the broadcast of each stage: true for the
\* diagonal tile (listBcast), is_shared = lookahead > 0 for the panel tiles
\* (listBcastMT), the default (false) for tileBcast of a lookahead column and
\* for listBcastMT of the trailing row
BcastShared(stage) ==
    CASE stage = "diag" -> TRUE
      [] stage = "panel" -> is_shared
      [] stage \in {"la", "trail"} -> FALSE

\* --------------------------------------------------------------- the input
\* An input is either abstract (cfg.a = <<>>): the pivots the panel kernel
\* finds are given by cfg.piv; or it carries the matrix itself (cfg.a[<<i,j>>],
\* block size 1, one element per tile): the kernels then compute with the
\* elements, in the field of the integers modulo Modulus.
HasData == DOMAIN cfg.a # {}

Modulus == 5
\* the result of dividing by zero, and of computing with such a result
NaN == Modulus
Scalars == 0..(Modulus - 1)

\* |x| of the residue x, taken in -(Modulus-1)/2 .. (Modulus-1)/2
Mag(x) == IF x = NaN THEN 0 ELSE IF 2 * x > Modulus THEN Modulus - x ELSE x

FAdd(x, y) == IF x = NaN \/ y = NaN THEN NaN ELSE (x + y) % Modulus
FSub(x, y) == IF x = NaN \/ y = NaN THEN NaN ELSE (x - y + Modulus) % Modulus
FMul(x, y) == IF x = NaN \/ y = NaN THEN NaN ELSE (x * y) % Modulus
FDiv(x, y) ==
    IF x = NaN \/ y = NaN \/ y = 0 THEN NaN
    ELSE (x * (CHOOSE z \in Scalars : (y * z) % Modulus = 1)) % Modulus

\* where the operation (name, k) stands in the history of tile t
Pos(t, name, k) == CHOOSE x \in DOMAIN A[t] : A[t][x][1] = name /\ A[t][x][2] = k

\* the tile row a row permutation <<"perm", k, pivots>> of block size 1 swaps with row k
PivotRow(op) == op[2] + op[3][1][1]

\* the element of tile t after the first n operations of its history:
\*   perm  k : rows k and the pivot row of every column it covers are swapped
\*   copy  k : A(k,k) takes the factored diagonal element of the workspace,
\*             which is the pivot element the panel kernel found
\*   trsmR k : A(i,k) := A(i,k) / U(k,k)
\*   trsmL k : A(k,j) := L(k,k)^-1 A(k,j), L(k,k) = 1
\*   gemm  k : A(i,j) := A(i,j) - A(i,k) A(k,j)
RECURSIVE Val(_, _)
Val(t, n) ==
    IF n = 0 THEN cfg.a[t]
    ELSE LET op == A[t][n]
             k == op[2]
             i == t[1]
             j == t[2]
             prev == Val(t, n - 1)
             Before(u, name) == Val(u, Pos(u, name, k) - 1)
             After(u, name) == Val(u, Pos(u, name, k)) IN
         CASE op[1] = "perm" ->
                 IF PivotRow(op) = k \/ i \notin {k, PivotRow(op)} THEN prev
                 ELSE IF i = k THEN Before(<<PivotRow(op), j>>, "perm")
                 ELSE Before(<<k, j>>, "perm")
           [] op[1] = "copy" ->
                 Before(<<PivotRow(A[t][Pos(t, "perm", k)]), k>>, "perm")
           [] op[1] = "trsmR" -> FDiv(prev, After(<<k, k>>, "copy"))
           [] op[1] = "trsmL" -> prev
           [] op[1] = "gemm" -> FSub(prev, FMul(After(<<i, k>>, "trsmR"), After(<<k, j>>, "trsmL")))
           [] OTHER -> NaN

\* the element of tile t now
Now(t) == Val(t, Len(A[t]))

\* mutant: the pivot search takes the last row of the panel
PivotSearch_lastRow(k) == A_mt - 1

\* the row the panel kernel pivots on in panel k: the first row of maximal
\* magnitude in column k, rows k..mt-1
PivotSearch(k) ==
    CHOOSE i \in k..(A_mt - 1) :
        \A x \in k..(A_mt - 1) : /\ Mag(Now(<<x, k>>)) <= Mag(Now(<<i, k>>))
                                 /\ x < i => Mag(Now(<<x, k>>)) < Mag(Now(<<i, k>>))

\* pivot sequence the panel kernel computes for panel k on this input matrix:
\* every row of the diagonal block swaps with a row of panel tile cfg.piv[k+1],
\* or of the tile the pivot search finds
PivotRecord(t, x) == <<t, IF t = 0 THEN x - 1 ELSE 0>>
PanelPivots(k, len) ==
    [x \in 1..len |-> PivotRecord(IF HasData THEN PivotSearch(k) - k ELSE cfg.piv[k + 1], x)]

\* --------------------------------------------------------------- getrf_ca
\* entry: layouts, device workspace, pivots.resize(min_mt_nt)
Setup(p) ==
    /\ At(p, "start")
    /\ pivots' = [pivots EXCEPT ![p] = [x \in 1..min_mt_nt |-> <<>>]]
    /\ Goto(p, "alloc", 0, 0)
    /\ Log(p, Ev("start", 0, 0, 0))
    /\ UNCHANGED <<call, tr, cfg, A, Awork, pivmsg, msgs, copies, holds, reads, bcastLog, panelIn>>

\* mutant: the diagonal length is taken from the tile's rows only
diag_len_rows(k) == tileMb(k)

\* int64_t diag_len = std::min(A.tileMb(k), A.tileNb(k))
diag_len(k) == Min(tileMb(k), tileNb(k))

\* pivots.at(k).resize(diag_len); Apanel = Awork.sub(k, mt-1, k, k); insertLocalTiles
PanelAlloc(p) ==
    LET k == pc[p].k IN
    /\ At(p, "alloc")
    /\ pivots' = [pivots EXCEPT ![p][k + 1] = [x \in 1..diag_len(k) |-> <<0, 0>>]]
    /\ Awork' = [Awork EXCEPT ![p] =
                    @ \cup {<<t[1], t[2], "new">> : t \in LocalIn(p, k, A_mt - 1, k, k)}]
    /\ Goto(p, "factor", k, k)
    /\ Log(p, Ev("alloc", k, k, k))
    /\ UNCHANGED <<call, tr, cfg, A, pivmsg, msgs, copies, holds, reads, bcastLog, panelIn>>

\* mutant: the panel is permuted right after the factorization, without MPI_Bcast
PanelFactor_noBcast(p) ==
    LET k == pc[p].k
        loc == LocalIn(p, k, A_mt - 1, k, k) IN
    /\ At(p, "factor")
    /\ Awork' = [Awork EXCEPT ![p] =
                    {IF <<w[1], w[2]>> \in loc THEN <<w[1], w[2], "lu">> ELSE w : w \in @}]
    /\ pivots' = [pivots EXCEPT ![p][k + 1] =
                    IF tileIsLocal(p, k, k) THEN PanelPivots(k, Len(@)) ELSE @]
    /\ panelIn' = [t \in Tiles |-> IF t \in loc THEN A[t] ELSE panelIn[t]]
    /\ Goto(p, "ppermute", k, k)
    /\ Log(p, Ev("factor", k, k, k))
    /\ UNCHANGED <<call, tr, cfg, A, pivmsg, msgs, copies, holds, reads, bcastLog>>

\* the panel kernel is collective over the ranks that hold tiles of the panel:
\* when the pivots are searched in the data, the owner of A(k,k), where the
\* result is modelled, has the tiles of the other ranks once they entered the kernel
PanelArrived(p, k) ==
    \A r \in Procs \ {p} :
        LocalIn(r, k, A_mt - 1, k, k) # {} =>
            \E x \in DOMAIN log[r] : log[r][x] = Ev("factor", k, k, k)

\* internal::getrf_ca<HostTask>(A.sub(k, mt-1, k, k), Apanel, diag_len, ib, pivots.at(k), ...)
PanelFactor(p) ==
    LET k == pc[p].k
        loc == LocalIn(p, k, A_mt - 1, k, k) IN
    /\ At(p, "factor")
    /\ (HasData /\ tileIsLocal(p, k, k)) => PanelArrived(p, k)
    /\ Awork' = [Awork EXCEPT ![p] =
                    {IF <<w[1], w[2]>> \in loc THEN <<w[1], w[2], "lu">> ELSE w : w \in @}]
    /\ pivots' = [pivots EXCEPT ![p][k + 1] =
                    IF tileIsLocal(p, k, k) THEN PanelPivots(k, Len(@)) ELSE @]
    /\ panelIn' = [t \in Tiles |-> IF t \in loc THEN A[t] ELSE panelIn[t]]
    /\ Goto(p, "pivbcast", k, k)
    /\ Log(p, Ev("factor", k, k, k))
    /\ UNCHANGED <<call, tr, cfg, A, pivmsg, msgs, copies, holds, reads, bcastLog>>

\* mutant: the owner of tile (k,k) leaves MPI_Bcast without sending the pivots
PivotBcast_rootSilent(p) ==
    LET k == pc[p].k IN
    /\ At(p, "pivbcast")
    /\ IF tileIsLocal(p, k, k)
       THEN UNCHANGED <<pivots, pivmsg>>
       ELSE /\ pivmsg[k + 1] # <<>>
            /\ pivots' = [pivots EXCEPT ![p][k + 1] = pivmsg[k + 1]]
            /\ UNCHANGED pivmsg
    /\ Goto(p, "ppermute", k, k)
    /\ Log(p, Ev("pivbcast", k, k, k))
    /\ UNCHANGED <<call, tr, cfg, A, Awork, msgs, copies, holds, reads, bcastLog, panelIn>>

\* mutant: a rank other than the owner of tile (k,k) leaves MPI_Bcast with the
\* pivots it had
PivotBcast_noRecv(p) ==
    LET k == pc[p].k IN
    /\ At(p, "pivbcast")
    /\ IF tileIsLocal(p, k, k)
       THEN pivmsg' = [pivmsg EXCEPT ![k + 1] = pivots[p][k + 1]]
       ELSE UNCHANGED pivmsg
    /\ UNCHANGED pivots
    /\ Goto(p, "ppermute", k, k)
    /\ Log(p, Ev("pivbcast", k, k, k))
    /\ UNCHANGED <<call, tr, cfg, A, Awork, msgs, copies, holds, reads, bcastLog, panelIn>>

\* MPI_Bcast(pivots.at(k).data(), ..., A.tileRank(k, k), A.mpiComm())
PivotBcast(p) ==
    LET k == pc[p].k IN
    /\ At(p, "pivbcast")
    /\ IF tileIsLocal(p, k, k)
       THEN /\ pivmsg' = [pivmsg EXCEPT ![k + 1] = pivots[p][k + 1]]
            /\ UNCHANGED pivots
       ELSE /\ pivmsg[k + 1] # <<>>
            /\ pivots' = [pivots EXCEPT ![p][k + 1] = pivmsg[k + 1]]
            /\ UNCHANGED pivmsg
    /\ Goto(p, "ppermute", k, k)
    /\ Log(p, Ev("pivbcast", k, k, k))
    /\ UNCHANGED <<call, tr, cfg, A, Awork, msgs, copies, holds, reads, bcastLog, panelIn>>

\* internal::permuteRows<HostTask>(Forward, A.sub(k, mt-1, k, k), pivots.at(k), ...)
PanelPermute(p) ==
    LET k == pc[p].k IN
    /\ At(p, "ppermute")
    /\ A' = ApplyOp(LocalIn(p, k, A_mt - 1, k, k), <<"perm", k, pivots[p][k + 1]>>)
    /\ Goto(p, "copy", k, k)
    /\ Log(p, Ev("ppermute", k, k, k))
    /\ UNCHANGED <<call, tr, cfg, pivots, Awork, pivmsg, msgs, copies, holds, reads, bcastLog, panelIn>>

\* mutant: the factored diagonal tile is not copied back before the broadcast
CopyBack_later(p) ==
    LET k == pc[p].k IN
    /\ At(p, "copy")
    /\ Goto(p, "dbcast", k, k)
    /\ Log(p, Ev("copy", k, k, k))
    /\ UNCHANGED <<call, tr, cfg, pivots, A, Awork, pivmsg, msgs, copies, holds, reads, bcastLog, panelIn>>

\* internal::copy<HostTask>(Apanel.sub(0, 0, 0, 0), A.sub(k, k, k, k))
CopyBack(p) ==
    LET k == pc[p].k IN
    /\ At(p, "copy")
    /\ A' = ApplyOp(LocalIn(p, k, k, k, k),
                    <<IF <<k, k, "lu">> \in Awork[p] THEN "copy" ELSE "copy_unfactored",
                      k, <<>> >>)
    /\ Goto(p, "dbcast", k, k)
    /\ Log(p, Ev("copy", k, k, k))
    /\ UNCHANGED <<call, tr, cfg, pivots, Awork, pivmsg, msgs, copies, holds, reads, bcastLog, panelIn>>

\* bcast_list_A = {k, k, {A.sub(k+1, mt-1, k, k), A.sub(k, k, k+1, nt-1)}}, tag_k = k
DiagBcastList(k) ==
    {Entry("diag", k, k, k,
           Sub(k + 1, A_mt - 1, k, k) \cup Sub(k, k, k + 1, A_nt - 1), k)}

\* mutant: the diagonal tile is broadcast in single-use mode (is_shared = false)
DiagBcast_notShared(p) ==
    LET k == pc[p].k IN
    /\ At(p, "dbcast")
    /\ DoBcast(p, DiagBcastList(k))
    /\ Hold(p, DiagBcastList(k), FALSE)
    /\ Goto(p, "clear", k, k)
    /\ Log(p, Ev("dbcast", k, k, k))
    /\ UNCHANGED <<call, tr, cfg, pivots, A, Awork, pivmsg, reads, panelIn>>

\* A.listBcast<target>(bcast_list_A, host_layout, tag_k, life_factor_one, true)
DiagBcast(p) ==
    LET k == pc[p].k IN
    /\ At(p, "dbcast")
    /\ DoBcast(p, DiagBcastList(k))
    /\ Hold(p, DiagBcastList(k), BcastShared("diag"))
    /\ Goto(p, "clear", k, k)
    /\ Log(p, Ev("dbcast", k, k, k))
    /\ UNCHANGED <<call, tr, cfg, pivots, A, Awork, pivmsg, reads, panelIn>>

\* mutant: the panel workspace is kept after the copy-back
PanelClear_keep(p) ==
    LET k == pc[p].k IN
    /\ At(p, "clear")
    /\ Goto(p, "ptrsm", k, k)
    /\ Log(p, Ev("clear", k, k, k))
    /\ UNCHANGED <<call, tr, cfg, pivots, A, Awork, pivmsg, msgs, copies, holds, reads, bcastLog, panelIn>>

\* Apanel.clear()
PanelClear(p) ==
    LET k == pc[p].k IN
    /\ At(p, "clear")
    /\ Awork' = [Awork EXCEPT ![p] = {w \in @ : ~(w[2] = k /\ w[1] >= k)}]
    /\ Goto(p, "ptrsm", k, k)
    /\ Log(p, Ev("clear", k, k, k))
    /\ UNCHANGED <<call, tr, cfg, pivots, A, pivmsg, msgs, copies, holds, reads, bcastLog, panelIn>>

\* internal::trsm<target>(Right, 1.0, Tkk (upper of A(k,k)), A.sub(k+1, mt-1, k, k), ...)
PanelTrsm(p) ==
    LET k == pc[p].k
        loc == LocalIn(p, k + 1, A_mt - 1, k, k) IN
    /\ At(p, "ptrsm")
    /\ A' = ApplyOp(loc, <<"trsmR", k, <<>> >>)
    /\ Read(p, IF loc = {} THEN {} ELSE {Rd(p, "ptrsm", k, <<k, k>>)})
    /\ Goto(p, "pbcast", k, k)
    /\ Log(p, Ev("ptrsm", k, k, k))
    /\ UNCHANGED <<call, tr, cfg, pivots, Awork, pivmsg, msgs, copies, holds, bcastLog, panelIn>>

\* for (i = k+1; i < A_mt; ++i) bcast_list.push_back({i, k, {A.sub(i, i, k+1, nt-1)}, tag = i})
PanelBcastList(k) ==
    {Entry("panel", k, i, k, Sub(i, i, k + 1, A_nt - 1), i) : i \in (k + 1)..(A_mt - 1)}

\* A.listBcastMT<target>(bcast_list, ColMajor, life_factor_one, is_shared)
PanelBcast(p) ==
    LET k == pc[p].k IN
    /\ At(p, "pbcast")
    /\ DoBcast(p, PanelBcastList(k))
    /\ Hold(p, PanelBcastList(k), BcastShared("panel"))
    /\ GotoPc(p, LookaheadLoop(k, k + 1))
    /\ Log(p, Ev("pbcast", k, k, k))
    /\ UNCHANGED <<call, tr, cfg, pivots, A, Awork, pivmsg, reads, panelIn>>

\* ---- lookahead column j, k+1 <= j < k+1+lookahead
\* internal::permuteRows<target>(Forward, A.sub(k, mt-1, j, j), pivots.at(k), target_layout, ...)
LaPermute(p) ==
    LET k == pc[p].k
        j == pc[p].j IN
    /\ At(p, "lperm")
    /\ A' = ApplyOp(LocalIn(p, k, A_mt - 1, j, j), <<"perm", k, pivots[p][k + 1]>>)
    /\ Goto(p, "ltrsm", k, j)
    /\ Log(p, Ev("lperm", k, j, j))
    /\ UNCHANGED <<call, tr, cfg, pivots, Awork, pivmsg, msgs, copies, holds, reads, bcastLog, panelIn>>

\* internal::trsm<target>(Left, 1.0, Tkk (unit lower of A(k,k)), A.sub(k, k, j, j), ...)
LaTrsm(p) ==
    LET k == pc[p].k
        j == pc[p].j
        loc == LocalIn(p, k, k, j, j) IN
    /\ At(p, "ltrsm")
    /\ A' = ApplyOp(loc, <<"trsmL", k, <<>> >>)
    /\ Read(p, IF loc = {} THEN {} ELSE {Rd(p, "ltrsm", k, <<k, k>>)})
    /\ Goto(p, "lbcast", k, j)
    /\ Log(p, Ev("ltrsm", k, j, j))
    /\ UNCHANGED <<call, tr, cfg, pivots, Awork, pivmsg, msgs, copies, holds, bcastLog, panelIn>>

\* A.tileBcast(k, j, A.sub(k+1, mt-1, j, j), ColMajor, tag_j = j)
LaBcastList(k, j) ==
    {Entry("la", k, k, j, Sub(k + 1, A_mt - 1, j, j), j)}

LaBcast(p) ==
    LET k == pc[p].k
        j == pc[p].j IN
    /\ At(p, "lbcast")
    /\ DoBcast(p, LaBcastList(k, j))
    /\ Goto(p, "lgemm", k, j)
    /\ Log(p, Ev("lbcast", k, j, j))
    /\ UNCHANGED <<call, tr, cfg, pivots, A, Awork, pivmsg, holds, reads, panelIn>>

\* what gemm(-1, A.sub(k+1, mt-1, k, k), A.sub(k, k, j1, j2), 1, A.sub(k+1, mt-1, j1, j2))
\* reads on rank p: A(i, k) and A(k, j) for every local A(i, j)
GemmReads(p, op, k, loc) ==
    {Rd(p, op, k, <<t[1], k>>) : t \in loc} \cup {Rd(p, op, k, <<k, t[2]>>) : t \in loc}

\* internal::gemm<target>(-1, A.sub(k+1, mt-1, k, k), A.sub(k, k, j, j), 1, A.sub(k+1, mt-1, j, j))
LaGemm(p) ==
    LET k == pc[p].k
        j == pc[p].j
        loc == LocalIn(p, k + 1, A_mt - 1, j, j) IN
    /\ At(p, "lgemm")
    /\ A' = ApplyOp(loc, <<"gemm", k, <<>> >>)
    /\ Read(p, GemmReads(p, "lgemm", k, loc))
    /\ GotoPc(p, LookaheadLoop(k, j + 1))
    /\ Log(p, Ev("lgemm", k, j, j))
    /\ UNCHANGED <<call, tr, cfg, pivots, Awork, pivmsg, msgs, copies, holds, bcastLog, panelIn>>

\* ---- trailing submatrix, columns k+1+lookahead .. nt-1
\* internal::permuteRows<HostTask>(Forward, A.sub(k, mt-1, k+1+lookahead, nt-1), pivots.at(k), ...)
TrPermute(p) ==
    LET k == pc[p].k
        j1 == pc[p].j IN
    /\ At(p, "tperm")
    /\ A' = ApplyOp(LocalIn(p, k, A_mt - 1, j1, A_nt - 1), <<"perm", k, pivots[p][k + 1]>>)
    /\ Goto(p, "ttrsm", k, j1)
    /\ Log(p, Ev("tperm", k, j1, A_nt - 1))
    /\ UNCHANGED <<call, tr, cfg, pivots, Awork, pivmsg, msgs, copies, holds, reads, bcastLog, panelIn>>

\* internal::trsm<target>(Left, 1.0, Tkk, A.sub(k, k, k+1+lookahead, nt-1), ...)
TrTrsm(p) ==
    LET k == pc[p].k
        j1 == pc[p].j
        loc == LocalIn(p, k, k, j1, A_nt - 1) IN
    /\ At(p, "ttrsm")
    /\ A' = ApplyOp(loc, <<"trsmL", k, <<>> >>)
    /\ Read(p, IF loc = {} THEN {} ELSE {Rd(p, "ttrsm", k, <<k, k>>)})
    /\ Goto(p, "tbcast", k, j1)
    /\ Log(p, Ev("ttrsm", k, j1, A_nt - 1))
    /\ UNCHANGED <<call, tr, cfg, pivots, Awork, pivmsg, msgs, copies, holds, bcastLog, panelIn>>

\* mutant: the trailing-row broadcast is tagged j, like the panel column
TrailingBcastList_tagJ(k) ==
    {Entry("trail", k, k, j, Sub(k + 1, A_mt - 1, j, j), j) :
        j \in TrailingFirst(k)..(A_nt - 1)}

\* for (j = k+1+lookahead; j < A_nt; ++j)
\*     bcast_list.push_back({k, j, {A.sub(k+1, mt-1, j, j)}, tag = j + A_mt})
TrailingBcastList(k) ==
    {Entry("trail", k, k, j, Sub(k + 1, A_mt - 1, j, j), j + A_mt) :
        j \in TrailingFirst(k)..(A_nt - 1)}

\* mutant: the trailing listBcastMT is left running and the rank goes on
TrBcast_async(p) ==
    LET k == pc[p].k
        j1 == pc[p].j IN
    /\ At(p, "tbcast")
    /\ DoBcast(p, TrailingBcastList(k))
    /\ Goto(p, "tgemm", k, j1)
    /\ UNCHANGED <<call, tr, cfg, pivots, A, Awork, pivmsg, holds, reads, panelIn, log>>

\* A.listBcastMT<target>(bcast_list, ColMajor)
TrBcast(p) ==
    LET k == pc[p].k
        j1 == pc[p].j IN
    /\ At(p, "tbcast")
    /\ DoBcast(p, TrailingBcastList(k))
    /\ Goto(p, "tgemm", k, j1)
    /\ Log(p, Ev("tbcast", k, j1, A_nt - 1))
    /\ UNCHANGED <<call, tr, cfg, pivots, A, Awork, pivmsg, holds, reads, panelIn>>

\* mutant: the trailing multiply updates every tile of the trailing
\* submatrix on every rank, not only the rank's own tiles
TrGemm_allTiles(p) ==
    LET k == pc[p].k
        j1 == pc[p].j
        loc == LocalIn(p, k + 1, A_mt - 1, j1, A_nt - 1) IN
    /\ At(p, "tgemm")
    /\ A' = ApplyOp(Sub(k + 1, A_mt - 1, j1, A_nt - 1), <<"gemm", k, <<>> >>)
    /\ Read(p, GemmReads(p, "tgemm", k, loc))
    /\ GotoPc(p, AfterTrailing(k))
    /\ Log(p, Ev("tgemm", k, j1, A_nt - 1))
    /\ UNCHANGED <<call, tr, cfg, pivots, Awork, pivmsg, msgs, copies, holds, bcastLog, panelIn>>

\* internal::gemm<target>(-1, A.sub(k+1, mt-1, k, k), A.sub(k, k, k+1+la, nt-1),
\*                         1, A.sub(k+1, mt-1, k+1+la, nt-1), ...)
TrGemm(p) ==
    LET k == pc[p].k
        j1 == pc[p].j
        loc == LocalIn(p, k + 1, A_mt - 1, j1, A_nt - 1) IN
    /\ At(p, "tgemm")
    /\ A' = ApplyOp(loc, <<"gemm", k, <<>> >>)
    /\ Read(p, GemmReads(p, "tgemm", k, loc))
    /\ GotoPc(p, AfterTrailing(k))
    /\ Log(p, Ev("tgemm", k, j1, A_nt - 1))
    /\ UNCHANGED <<call, tr, cfg, pivots, Awork, pivmsg, msgs, copies, holds, bcastLog, panelIn>>

\* ---- device release tasks (target == Devices)
\* if (A.tileIsLocal(k, k) && k+1 < A_nt) for the local devices of A(k+1:mt-1, k) and
\* A(k, k+1:nt-1): tileUnsetHold(k, k, device); tileRelease(k, k, device)
ReleaseDiag(p) ==
    LET k == pc[p].k
        devs == LocalIn(p, k + 1, A_mt - 1, k, k) \cup LocalIn(p, k, k, k + 1, A_nt - 1) IN
    /\ At(p, "reldiag")
    /\ holds' = [holds EXCEPT ![p] =
                    IF tileIsLocal(p, k, k) /\ k + 1 < A_nt /\ devs # {}
                    THEN @ \ {<<k, k>>} ELSE @]
    /\ GotoPc(p, AfterRelDiag(k))
    /\ Log(p, Ev("reldiag", k, k, k))
    /\ UNCHANGED <<call, tr, cfg, pivots, A, Awork, pivmsg, msgs, copies, reads, bcastLog, panelIn>>

\* if (is_shared) for (i = k+1; i < A_mt; ++i) if (A.tileIsLocal(i, k)):
\* tileUpdateOrigin(i, k); for the local devices of A(i, k+1:nt-1): unset hold, release
ReleasePanel(p) ==
    LET k == pc[p].k
        rel == {t \in LocalIn(p, k + 1, A_mt - 1, k, k) :
                    LocalIn(p, t[1], t[1], k + 1, A_nt - 1) # {}} IN
    /\ At(p, "relpanel")
    /\ holds' = [holds EXCEPT ![p] = @ \ rel]
    /\ GotoPc(p, NextPanel(k))
    /\ Log(p, Ev("relpanel", k, k, k))
    /\ UNCHANGED <<call, tr, cfg, pivots, A, Awork, pivmsg, msgs, copies, reads, bcastLog, panelIn>>

\* ---- after the main loop
\* A.tileUpdateAllOrigin()
UpdateOrigin(p) ==
    /\ At(p, "origin")
    /\ GotoPc(p, LeftLoop(0))
    /\ Log(p, Ev("origin", 0, 0, 0))
    /\ UNCHANGED <<call, tr, cfg, pivots, A, Awork, pivmsg, msgs, copies, holds, reads, bcastLog, panelIn>>

\* mutant: the left-of-panel loop applies the panels in decreasing order
LeftPermute_backward(p) ==
    LET k == pc[p].k
        kk == min_mt_nt - k IN
    /\ At(p, "left")
    /\ IF k > 0
       THEN /\ A' = ApplyOp(LocalIn(p, kk, A_mt - 1, 0, kk - 1), <<"perm", kk, pivots[p][kk + 1]>>)
            /\ Log(p, Ev("left", kk, 0, kk - 1))
       ELSE UNCHANGED <<A, log>>
    /\ GotoPc(p, LeftLoop(k + 1))
    /\ UNCHANGED <<call, tr, cfg, pivots, Awork, pivmsg, msgs, copies, holds, reads, bcastLog, panelIn>>

\* one iteration of the pivot-to-the-left loop:
\* if (k > 0) internal::permuteRows<HostTask>(Forward, A.sub(k, mt-1, 0, k-1), pivots.at(k), host_layout)
LeftPermute(p) ==
    LET k == pc[p].k IN
    /\ At(p, "left")
    /\ IF k > 0
       THEN /\ A' = ApplyOp(LocalIn(p, k, A_mt - 1, 0, k - 1), <<"perm", k, pivots[p][k + 1]>>)
            /\ Log(p, Ev("left", k, 0, k - 1))
       ELSE UNCHANGED <<A, log>>
    /\ GotoPc(p, LeftLoop(k + 1))
    /\ UNCHANGED <<call, tr, cfg, pivots, Awork, pivmsg, msgs, copies, holds, reads, bcastLog, panelIn>>

\* A.clearWorkspace()
ClearWorkspace(p) ==
    /\ At(p, "clearws")
    /\ copies' = [copies EXCEPT ![p] = [t \in Tiles |-> NoCopy]]
    /\ Goto(p, "done", 0, 0)
    /\ Log(p, Ev("return", 0, 0, 0))
    /\ UNCHANGED <<call, tr, cfg, pivots, A, Awork, pivmsg, msgs, holds, reads, bcastLog, panelIn>>

\* ------------------------------------------------- the public routines
\* An option of the options map is a set: {} when the key is absent, {v}
\* when it is present with value v.
Absent == {}
Value(o) == CHOOSE v \in o : TRUE

Max(a, b) == IF a > b THEN a ELSE b

\* catch (std::out_of_range&) { lookahead = 1; }
DefaultLookahead == 1
\* catch (std::out_of_range&) { ib = 16; }
DefaultIb == 16
\* mutant: the default is half the host threads, with no lower limit
DefaultMaxPanelThreads_half(host_threads) == host_threads \div 2

\* std::max(omp_get_max_threads()/2, 1)
DefaultMaxPanelThreads(host_threads) == Max(host_threads \div 2, 1)

\* the enumerators of Target; "Other" stands for an option value that is none of them
TargetEnum == {"Host", "HostTask", "HostNest", "HostBatch", "Devices"}

\* mutant: the switch has a default label that runs the HostTask version
Backend_withDefault(t) ==
    IF t \in {"HostNest", "HostBatch", "Devices"} THEN {t} ELSE {"HostTask"}

\* switch (target): the version the call is dispatched to, {} when no case matches
Backend(t) ==
    IF t \in {"Host", "HostTask"} THEN {"HostTask"}
    ELSE IF t \in {"HostNest", "HostBatch", "Devices"} THEN {t}
    ELSE {}

\* the conditions of the three assert()s
LookaheadAssert(v) == v >= 0
IbAssert(v) == v >= 0
MaxPanelThreadsAssert(routine, v, host_threads) ==
    IF routine = "getrf_ca" THEN v >= 1 /\ v <= host_threads ELSE v >= 0

\* try { x = opts.at(key).i_; assert(ok); } catch (std::out_of_range&) { x = default; }
\* assert() ends the process when it fails and is compiled in, and is no
\* statement at all in a build with NDEBUG
Parsed(o, default, ok) ==
    IF o = Absent THEN [abort |-> FALSE, value |-> default]
    ELSE [abort |-> ~call.ndebug /\ ~ok, value |-> Value(o)]

SetCall(c) == call' = c /\ UNCHANGED <<driver, tr>>

\* Target target = opts.at(Option::Target) or HostTask; switch (target)
Dispatch ==
    /\ call.stage = "entry"
    /\ LET t == IF call.opts.target = Absent THEN "HostTask" ELSE Value(call.opts.target)
           b == Backend(t) IN
       SetCall([call EXCEPT !.backend = b,
                            !.stage = IF b = {} THEN "return" ELSE "lookahead"])

ParseLookahead ==
    /\ call.stage = "lookahead"
    /\ LET o == call.opts.lookahead
           r == Parsed(o, DefaultLookahead, o # Absent /\ LookaheadAssert(Value(o))) IN
       SetCall(IF r.abort THEN [call EXCEPT !.stage = "aborted"]
               ELSE [call EXCEPT !.lookahead = {r.value}, !.stage = "ib"])

ParseInnerBlocking ==
    /\ call.stage = "ib"
    /\ LET o == call.opts.ib
           r == Parsed(o, DefaultIb, o # Absent /\ IbAssert(Value(o))) IN
       SetCall(IF r.abort THEN [call EXCEPT !.stage = "aborted"]
               ELSE [call EXCEPT !.ib = {r.value}, !.stage = "threads"])

ParseMaxPanelThreads ==
    /\ call.stage = "threads"
    /\ LET o == call.opts.max_panel_threads
           r == Parsed(o, DefaultMaxPanelThreads(call.host_threads),
                       o # Absent /\ MaxPanelThreadsAssert(call.routine, Value(o),
                                                           call.host_threads)) IN
       SetCall(IF r.abort THEN [call EXCEPT !.stage = "aborted"]
               ELSE [call EXCEPT !.max_panel_threads = {r.value}, !.stage = "run"])

\* the objects of the caller a routine is passed by reference: the ones it
\* takes as input and the ones it leaves its result in
Operands(fn) ==
    IF fn = "gbtrs" THEN [uses |-> {"A", "pivots", "B"}, sets |-> {"B"}]
    ELSE [uses |-> {"A"}, sets |-> {"A", "pivots"}]

\* one call made by a specialization, with the options it is given
Callee(fn, tgt, ib, mpt, la) ==
    [fn |-> fn, target |-> tgt, ib |-> ib, max_panel_threads |-> mpt, lookahead |-> la,
     operands |-> Operands(fn)]

\* internal::specialization::getrf_ca(TargetType<target>(), A, pivots, ib, max_panel_threads, lookahead)
Factor ==
    /\ call.stage = "run" /\ call.routine = "getrf_ca"
    /\ SetCall([call EXCEPT
                  !.ran = Append(@, Value(call.backend)),
                  !.calls = Append(@, Callee("getrf_ca", call.backend, call.ib,
                                             call.max_panel_threads, call.lookahead)),
                  !.stage = "return"])

\* specialization::gbsv: gbtrf(A, pivots, {InnerBlocking, Lookahead, MaxPanelThreads, Target})
Gbtrf ==
    /\ call.stage = "run" /\ call.routine = "gbsv"
    /\ SetCall([call EXCEPT
                  !.ran = Append(@, Value(call.backend)),
                  !.calls = Append(@, Callee("gbtrf", call.backend, call.ib,
                                             call.max_panel_threads, call.lookahead)),
                  !.stage = "solve"])

\* mutant: the solve is given the four options of the factorization
Gbtrs_allOptions ==
    /\ call.stage = "solve"
    /\ SetCall([call EXCEPT
                  !.calls = Append(@, Callee("gbtrs", call.backend, call.ib,
                                             call.max_panel_threads, call.lookahead)),
                  !.stage = "return"])

\* specialization::gbsv: gbtrs(A, pivots, B, {Lookahead, Target})
Gbtrs ==
    /\ call.stage = "solve"
    /\ SetCall([call EXCEPT
                  !.calls = Append(@, Callee("gbtrs", call.backend, Absent, Absent,
                                             call.lookahead)),
                  !.stage = "return"])

\* the routines are void: "todo: return value for errors?"; nothing is reported
Return ==
    /\ call.stage = "return"
    /\ SetCall([call EXCEPT !.reported = {}, !.stage = "returned"])

\* -------------------------------------------------------------------- trsm
\* no call of trsm is under way
TrsmIdle == [stage |-> "idle"]

Ops == {"NoTrans", "Trans", "ConjTrans"}

\* transpose(M) and conj_transpose(M) of a view whose operation is op; a view
\* that would become conjugated and not transposed is refused with an exception
Unsupported == "unsupported"
transpose(op) ==
    CASE op = "NoTrans" -> "Trans" [] op = "Trans" -> "NoTrans" [] OTHER -> Unsupported
conj_transpose(op) ==
    CASE op = "NoTrans" -> "ConjTrans" [] op = "ConjTrans" -> "NoTrans" [] OTHER -> Unsupported

\* conj(alpha): alpha is carried as the tag of the value it holds
conj(a) == IF a = "alpha" THEN "conj(alpha)" ELSE "alpha"

\* A.uplo_logical(): the stored triangle, flipped when the view is transposed
uplo_logical(uplo, op) ==
    IF op = "NoTrans" THEN uplo ELSE IF uplo = "Lower" THEN "Upper" ELSE "Lower"

\* mutant: A and B are taken by reference
ByValue_ref == FALSE

\* trsm(..., TriangularMatrix<scalar_t> A, Matrix<scalar_t> B, ...): by value
ByValue == TRUE

\* trsm<target>(side, diag, alpha, A, B, opts): lookahead = opts.at(Lookahead)
\* or 1; the specialization is entered with copies of the views A and B
TrsmEnter ==
    /\ tr.stage = "entry"
    /\ tr' = [tr EXCEPT !.lookahead = IF tr.opts = Absent THEN 1 ELSE Value(tr.opts),
                        !.A = tr.callerA, !.B = tr.callerB, !.byValue = ByValue,
                        !.stage = "side"]
    /\ UNCHANGED <<driver, call>>

\* one task: its depend clauses (tokens row[.]), the block rows of B it
\* writes, the block row of B it reads as the multiply operand, and the
\* factor alph of its solve or of its accumulate
Task(kind, k, din, dinout, wr, rd, al) ==
    [kind |-> kind, k |-> k, in |-> din, inout |-> dinout, writes |-> wr,
     reads |-> rd, alph |-> al]

\* mutant: every step scales by alpha
Alph_always(first) == "alpha"

\* scalar_t alph = k == 0 ? alpha : scalar_t(1.0)   (k == mt-1 backward)
Alph(first) == IF first THEN "alpha" ELSE "one"

\* mutant: the forward trailing task names only the token row[mt-1]
FwdTrailingDeps_chainOnly(k) == {tr.mt - 1}

\* mutant: the forward trailing task names only the token row[k+1+lookahead]
FwdTrailingDeps_noChain(k) == {k + 1 + tr.lookahead}

\* depend(inout:row[k+1+lookahead]) depend(inout:row[mt-1])
FwdTrailingDeps(k) == {k + 1 + tr.lookahead, tr.mt - 1}

\* mutant: the backward trailing task names only the token row[0]
BwdTrailingDeps_chainOnly(k) == {0}

\* depend(inout:row[k-1-lookahead]) depend(inout:row[0])
BwdTrailingDeps(k) == {k - 1 - tr.lookahead, 0}

\* forward sweep, iteration k: panel task, lookahead tasks, trailing task
FwdStep(k) ==
    LET mt == tr.mt
        la == tr.lookahead
        alph == Alph(k = 0)
        rows == {i \in (k + 1)..(mt - 1) : i < k + 1 + la} IN
    <<Task("panel", k, {}, {k}, {k}, {}, alph)>>
    \o [x \in 1..Cardinality(rows) |->
          Task("lookahead", k, {k}, {k + x}, {k + x}, {k}, alph)]
    \o (IF k + 1 + la < mt
        THEN <<Task("trailing", k, {k}, FwdTrailingDeps(k), (k + 1 + la)..(mt - 1), {k}, alph)>>
        ELSE <<>>)

\* backward sweep, iteration k
BwdStep(k) ==
    LET mt == tr.mt
        la == tr.lookahead
        alph == Alph(k = mt - 1)
        rows == {i \in 0..(k - 1) : i > k - 1 - la} IN
    <<Task("panel", k, {}, {k}, {k}, {}, alph)>>
    \o [x \in 1..Cardinality(rows) |->
          Task("lookahead", k, {k}, {k - x}, {k - x}, {k}, alph)]
    \o (IF k - 1 - la >= 0
        THEN <<Task("trailing", k, {k}, BwdTrailingDeps(k), 0..(k - 1 - la), {k}, alph)>>
        ELSE <<>>)

RECURSIVE FwdTasks(_)
\* the tasks of for (k = 0; k < n; ++k), in the order the master creates them
FwdTasks(n) == IF n = 0 THEN <<>> ELSE FwdTasks(n - 1) \o FwdStep(n - 1)

RECURSIVE BwdTasks(_)
\* the tasks of the first n iterations of for (k = mt-1; k >= 0; --k)
BwdTasks(n) == IF n = 0 THEN <<>> ELSE BwdTasks(n - 1) \o BwdStep(tr.mt - n)

\* if (A.uplo_logical() == Uplo::Lower) forward sweep else backward sweep:
\* the tasks the master thread will create, in order
SweepTasks(uplo, op) ==
    IF uplo_logical(uplo, op) = "Lower" THEN FwdTasks(tr.mt) ELSE BwdTasks(tr.mt)

Forward == uplo_logical(tr.uplo, tr.A) = "Lower"
Tasks == tr.tasks

\* the views after M = transpose(M) or M = conj_transpose(M) in the
\* specialization: the parameter, and the caller's object when the parameter
\* is a reference to it
Assigned(t, a, b, al) ==
    [t EXCEPT !.A = a, !.B = b, !.alpha = al,
              !.callerA = IF t.byValue THEN @ ELSE a,
              !.callerB = IF t.byValue THEN @ ELSE b]

\* if (side == Right) { (conj_)transpose A and B; conj(alpha) }; mt = B.mt()
TrsmSide ==
    /\ tr.stage = "side"
    /\ LET cj == tr.A = "ConjTrans" \/ tr.B = "ConjTrans"
           a == IF cj THEN conj_transpose(tr.A) ELSE transpose(tr.A)
           b == IF cj THEN conj_transpose(tr.B) ELSE transpose(tr.B)
           r == IF tr.side = "Left" THEN [tr EXCEPT !.stage = "sweep"]
                ELSE IF a = Unsupported THEN [tr EXCEPT !.stage = "thrown"]
                ELSE IF b = Unsupported
                     THEN [Assigned(tr, a, tr.B, tr.alpha) EXCEPT !.stage = "thrown"]
                ELSE [Assigned(tr, a, b, IF cj THEN conj(tr.alpha) ELSE tr.alpha)
                         EXCEPT !.stage = "sweep"] IN
       tr' = [r EXCEPT !.tasks = IF r.stage = "sweep" THEN SweepTasks(r.uplo, r.A) ELSE <<>>]
    /\ UNCHANGED <<driver, call>>


\* task t waits for the sibling u created before it: u has an out/inout
\* dependence on a token t names, or t has an inout dependence on a token u names
DependsOn(t, u) ==
    \/ (Tasks[t].in \cup Tasks[t].inout) \cap Tasks[u].inout # {}
    \/ Tasks[t].inout \cap Tasks[u].in # {}

\* the master thread creates the next task of the sweep
TrsmCreate ==
    /\ tr.stage = "sweep"
    /\ tr.created < Len(Tasks)
    /\ tr' = [tr EXCEPT !.created = @ + 1]
    /\ UNCHANGED <<driver, call>>

\* a thread of the team starts a created task none of whose predecessors is unfinished
TrsmStart(t) ==
    /\ tr.stage = "sweep"
    /\ t \in 1..tr.created /\ t \notin tr.running \cup tr.done
    /\ \A u \in 1..(t - 1) : DependsOn(t, u) => u \in tr.done
    /\ tr' = [tr EXCEPT !.running = @ \cup {t}]
    /\ UNCHANGED <<driver, call>>

\* the kernel of a task as an operation on a block row of B
KernelOp(t) ==
    [op |-> IF Tasks[t].kind = "panel" THEN "trsm" ELSE "gemm", k |-> Tasks[t].k,
     alph |-> Tasks[t].alph]

\* the task completes: every block row it writes has received its solve or update
TrsmFinish(t) ==
    /\ tr.stage = "sweep"
    /\ t \in tr.running
    /\ tr' = [tr EXCEPT !.running = @ \ {t}, !.done = @ \cup {t},
                        !.rows = [i \in DOMAIN @ |->
                                    IF i \in Tasks[t].writes THEN Append(@[i], KernelOp(t))
                                    ELSE @[i]]]
    /\ UNCHANGED <<driver, call>>

\* end of the parallel region: every task has completed; tiles are moved to
\* the host, the workspace is cleared, the call returns
TrsmReturn ==
    /\ tr.stage = "sweep"
    /\ tr.created = Len(Tasks) /\ tr.done = 1..Len(Tasks)
    /\ tr' = [tr EXCEPT !.stage = "returned"]
    /\ UNCHANGED <<driver, call>>

\* ------------------------------------------------------------ specification
\* process grids p x q the matrix is distributed over
Grids == {<<1, 1>>, <<2, 1>>, <<1, 2>>}

\* Host, HostNest and HostBatch take the same path as HostTask in getrf_ca
Targets == {"HostTask", "Devices"}

\* inputs whose panel pivots all lie in the last tile of the panel
SchedConfigs ==
    {[mt |-> mt, nt |-> nt, mbLast |-> NB, nbLast |-> NB, lookahead |-> la,
      target |-> tg, p |-> g[1], q |-> g[2],
      piv |-> [x \in 1..Min(mt, nt) |-> mt - x], zero |-> {}, nb |-> NB, a |-> <<>>] :
        mt \in 1..MaxT, nt \in 1..MaxT, la \in 0..(MaxT - 1), tg \in Targets, g \in Grids}

\* the call as it stands when the specialization runs with the inputs of cfg
DriverCall ==
    [routine |-> "getrf_ca", ndebug |-> TRUE, host_threads |-> 1,
     opts |-> [lookahead |-> {lookahead}, ib |-> Absent, max_panel_threads |-> Absent,
               target |-> {target}],
     stage |-> "run", backend |-> {target}, lookahead |-> {lookahead},
     ib |-> {DefaultIb}, max_panel_threads |-> {DefaultMaxPanelThreads(1)},
     ran |-> <<>>, calls |-> <<>>, reported |-> {}]

\* the driver's state on entry
DriverInit ==
    /\ pc = [p \in Procs |-> Pc("start", 0, 0)]
    /\ pivots = [p \in Procs |-> <<>>]
    /\ A = [t \in Tiles |-> <<>>]
    /\ Awork = [p \in Procs |-> {}]
    /\ pivmsg = [x \in 1..min_mt_nt |-> <<>>]
    /\ msgs = {}
    /\ copies = [p \in Procs |-> [t \in Tiles |-> NoCopy]]
    /\ holds = [p \in Procs |-> {}]
    /\ log = [p \in Procs |-> <<>>]
    /\ reads = [p \in Procs |-> {}]
    /\ bcastLog = {}
    /\ panelIn = [t \in Tiles |-> <<>>]

InitState(C) ==
    /\ cfg \in C
    /\ call = DriverCall
    /\ tr = TrsmIdle
    /\ DriverInit

\* inputs with a short last tile row or column and any placement of the pivots
\* (first or last tile of the panel), distributed over two ranks
TileShapes == {<<NB, NB>>, <<1, NB>>, <<NB, 1>>}

DataConfigs ==
    UNION {{[mt |-> mt, nt |-> nt, mbLast |-> sh[1], nbLast |-> sh[2], lookahead |-> 1,
             target |-> "Devices", p |-> 2, q |-> 1, piv |-> pv, zero |-> {}, nb |-> NB, a |-> <<>>] :
               pv \in {f \in [1..Min(mt, nt) -> 0..(mt - 1)] :
                          \A x \in 1..Min(mt, nt) : f[x] \in {0, mt - x}}} :
            mt \in 1..MaxT, nt \in 1..MaxT, sh \in TileShapes}

\* inputs that are exactly singular: cfg.zero is the set of panels whose
\* diagonal pivot comes out exactly zero (the panel then pivots on its own rows)
SingularConfigs ==
    UNION {{[mt |-> mt, nt |-> nt, mbLast |-> NB, nbLast |-> NB, lookahead |-> 1,
             target |-> "Devices", p |-> 2, q |-> 1,
             piv |-> [x \in 1..Min(mt, nt) |-> 0], zero |-> z, nb |-> NB, a |-> <<>>] :
               z \in (SUBSET (0..(Min(mt, nt) - 1))) \ {{}}} :
            mt \in 1..MaxT, nt \in 1..MaxT}

Init == InitState(SchedConfigs \cup DataConfigs \cup SingularConfigs)

\* the same call on three ranks, a row or a column of processes
WideGrids == {<<1, 3>>, <<3, 1>>}

WideConfigs ==
    {[mt |-> mt, nt |-> MaxT, mbLast |-> NB, nbLast |-> NB, lookahead |-> la,
      target |-> "Devices", p |-> g[1], q |-> g[2],
      piv |-> [x \in 1..Min(mt, MaxT) |-> mt - x], zero |-> {}, nb |-> NB, a |-> <<>>] :
        mt \in {2}, la \in 0..1, g \in WideGrids}

InitWide == InitState(WideConfigs)

Next ==
    \E p \in Procs :
        \/ Setup(p)
        \/ PanelAlloc(p)
        \/ PanelFactor(p)
        \/ PivotBcast(p)
        \/ PanelPermute(p)
        \/ CopyBack(p)
        \/ DiagBcast(p)
        \/ PanelClear(p)
        \/ PanelTrsm(p)
        \/ PanelBcast(p)
        \/ LaPermute(p)
        \/ LaTrsm(p)
        \/ LaBcast(p)
        \/ LaGemm(p)
        \/ TrPermute(p)
        \/ TrTrsm(p)
        \/ TrBcast(p)
        \/ TrGemm(p)
        \/ ReleaseDiag(p)
        \/ ReleasePanel(p)
        \/ UpdateOrigin(p)
        \/ LeftPermute(p)
        \/ ClearWorkspace(p)

Spec == Init /\ [][Next]_vars

SpecWide == InitWide /\ [][Next]_vars

\* every rank is a process of its own: a rank that can take a step takes one
FairSpec == Init /\ [][Next]_vars /\ WF_vars(Next)

\* ---- the factorization of given matrices, block size 1, on one rank
\* the identity, rectangular when mt # nt
Identity(mt, nt) == [t \in Sub(0, mt - 1, 0, nt - 1) |-> IF t[1] = t[2] THEN 1 ELSE 0]

\* the identity with up to two elements replaced
NearIdentity(mt, nt) ==
    {[t \in Sub(0, mt - 1, 0, nt - 1) |->
        IF t = t1 THEN v1 ELSE IF t = t2 THEN v2 ELSE Identity(mt, nt)[t]] :
          t1 \in Sub(0, mt - 1, 0, nt - 1), t2 \in Sub(0, mt - 1, 0, nt - 1),
          v1 \in Scalars, v2 \in Scalars}

DataConfig(mt, nt, la, a) ==
    [mt |-> mt, nt |-> nt, mbLast |-> 1, nbLast |-> 1, lookahead |-> la,
     target |-> "Devices", p |-> 1, q |-> 1, piv |-> [x \in 1..Min(mt, nt) |-> 0],
     zero |-> {}, nb |-> 1, a |-> a]

\* every 2 x 2 matrix; the near-identity matrices of every shape; the
\* identity up to MaxT+1 tiles
MatrixConfigs ==
    {DataConfig(2, 2, la, a) : la \in 0..1, a \in [Sub(0, 1, 0, 1) -> Scalars]}
    \cup UNION {{DataConfig(mt, nt, 1, a) : a \in NearIdentity(mt, nt)} :
                  mt \in 1..MaxT, nt \in 1..MaxT}
    \cup {DataConfig(n, n, la, Identity(n, n)) : n \in 1..(MaxT + 1), la \in 0..1}

InitLU == InitState(MatrixConfigs)

\* the same matrix on 1, 2 and 4 processes
LUGrids == {<<1, 1>>, <<2, 1>>, <<1, 2>>, <<2, 2>>}

\* a matrix whose panels 0 and 1 pivot on the row below the diagonal and whose
\* factors L and U have non-zero elements off the diagonal
Sample(mt, nt) ==
    [t \in Sub(0, mt - 1, 0, nt - 1) |->
        IF t[1] = (t[2] + 1) % mt THEN 2 ELSE ((t[2] + 4 * t[1]) % Modulus) % 2]

\* the MaxT x MaxT sample on one and two processes, and its first MaxT-1
\* columns on one, two and four processes
GridConfigs ==
    {[DataConfig(MaxT, MaxT, la, Sample(MaxT, MaxT)) EXCEPT !.p = g[1], !.q = g[2]] :
        la \in 0..1, g \in Grids}
    \cup {[DataConfig(MaxT, MaxT - 1, DefaultLookahead, Sample(MaxT, MaxT - 1))
             EXCEPT !.p = g[1], !.q = g[2]] : g \in LUGrids}

InitGrid == InitState(GridConfigs)

SpecGrid == InitGrid /\ [][Next]_vars

SpecLU == InitLU /\ [][Next]_vars

\* ---- the public routines getrf_ca and gbsv, from entry to return
\* largest value of omp_get_max_threads()
MaxThreads == 3

Options(values) == {Absent} \cup {{v} : v \in values}

\* every options map: each key absent, in range, or out of range
OptionMaps ==
    [lookahead : Options(-1..(MaxT - 1)),
     ib : Options({-1, 0, 1, DefaultIb}),
     max_panel_threads : Options(-1..(MaxThreads + 1)),
     target : Options(TargetEnum \cup {"Other"})]

\* the matrices the routines are called on: regular, or with a zero pivot
CallConfigs ==
    {[mt |-> 2, nt |-> 2, mbLast |-> NB, nbLast |-> NB, lookahead |-> 1,
      target |-> "HostTask", p |-> 1, q |-> 1, piv |-> <<0, 0>>, zero |-> z, nb |-> NB, a |-> <<>>] :
        z \in {{}, {0}, {1}}}

InitCall ==
    /\ cfg \in CallConfigs
    /\ \E r \in {"getrf_ca", "gbsv"}, o \in OptionMaps, nd \in BOOLEAN, h \in 1..MaxThreads :
          call = [routine |-> r, ndebug |-> nd, host_threads |-> h, opts |-> o,
                  stage |-> "entry", backend |-> {}, lookahead |-> {}, ib |-> {},
                  max_panel_threads |-> {}, ran |-> <<>>, calls |-> <<>>,
                  reported |-> {}]
    /\ tr = TrsmIdle
    /\ DriverInit

NextCall ==
    \/ Dispatch
    \/ ParseLookahead
    \/ ParseInnerBlocking
    \/ ParseMaxPanelThreads
    \/ Factor
    \/ Gbtrf
    \/ Gbtrs
    \/ Return

SpecCall == InitCall /\ [][NextCall]_vars

\* ---- trsm, from the call to its return
MaxLookahead == 3

Sides == {"Left", "Right"}
Uplos == {"Lower", "Upper"}

\* the matrix the other programs stand on while trsm runs
TrsmDriverConfig ==
    [mt |-> 1, nt |-> 1, mbLast |-> NB, nbLast |-> NB, lookahead |-> 1,
     target |-> "HostTask", p |-> 1, q |-> 1, piv |-> <<0>>, zero |-> {}, nb |-> NB, a |-> <<>>]

\* every call: side, triangle and operations of the views, number of block
\* rows of op(B) for side = Left, the Lookahead option absent or 0..MaxLookahead
InitTrsm ==
    /\ cfg = TrsmDriverConfig
    /\ call = DriverCall
    /\ DriverInit
    /\ \E sd \in Sides, ul \in Uplos, oa \in Ops, ob \in Ops, m \in 1..(MaxT + 1),
          o \in Options(0..MaxLookahead) :
          tr = [stage |-> "entry", side |-> sd, uplo |-> ul, mt |-> m, opts |-> o,
                callerA |-> oa, callerB |-> ob, given |-> [A |-> oa, B |-> ob],
                A |-> oa, B |-> ob, alpha |-> "alpha", byValue |-> TRUE, lookahead |-> 0,
                tasks |-> <<>>, created |-> 0, running |-> {}, done |-> {},
                rows |-> [i \in 0..(m - 1) |-> <<>>]]

NextTrsm ==
    \/ TrsmEnter
    \/ TrsmSide
    \/ TrsmCreate
    \/ \E t \in 1..Len(Tasks) : TrsmStart(t)
    \/ \E t \in 1..Len(Tasks) : TrsmFinish(t)
    \/ TrsmReturn

SpecTrsm == InitTrsm /\ [][NextTrsm]_vars

\* ---- hegv, from the call to its return
MaxType == 4

\* a Hermitian view: the stored triangle and the operation of the view
View(uplo, op) == [uplo |-> uplo, op |-> op]

\* A.uplo(): the logical triangle of a view
Uplo(M) == uplo_logical(M.uplo, M.op)

\* if (M.uplo() == Uplo::Upper) M = conj_transpose(M)
ToLower(M) == IF Uplo(M) = "Upper" THEN View(M.uplo, conj_transpose(M.op)) ELSE M

\* mutant: only type 1 is back-transformed with the solve
SolveTypes_one == {1}

\* type == 1 || type == 2
SolveTypes == {1, 2}

SetHegv(c) == call' = c /\ UNCHANGED <<driver, tr>>

\* if (A.uplo() == Uplo::Upper) A = conj_transpose(A)
HegvLowerA ==
    /\ call.routine = "hegv" /\ call.stage = "entry"
    /\ SetHegv([call EXCEPT !.A = ToLower(@), !.stage = "lowerB"])

\* if (B.uplo() == Uplo::Upper) B = conj_transpose(B)
HegvLowerB ==
    /\ call.routine = "hegv" /\ call.stage = "lowerB"
    /\ SetHegv([call EXCEPT !.B = ToLower(@), !.stage = "potrf"])

\* potrf(B, opts)
HegvPotrf ==
    /\ call.routine = "hegv" /\ call.stage = "potrf"
    /\ SetHegv([call EXCEPT
                  !.calls = Append(@, [fn |-> "potrf", on |-> "B", uplo |-> Uplo(call.B),
                                       A |-> call.A, opts |-> call.opts]),
                  !.stage = "back"])

\* L = TriangularMatrix(Uplo::Lower, Diag::NonUnit, B)
HegvL == [uplo |-> "Lower", diag |-> "NonUnit", of |-> "B"]

\* if (type == 1 || type == 2) slate::trsm(Side::Left, one, L, V, opts)
HegvTrsm ==
    /\ call.routine = "hegv" /\ call.stage = "back"
    /\ call.type \in SolveTypes
    /\ SetHegv([call EXCEPT
                  !.calls = Append(@, [fn |-> "trsm", on |-> "V", side |-> "Left", L |-> HegvL,
                                       opts |-> call.opts]),
                  !.stage = "return"])

\* else slate::trmm(Side::Left, one, L, V, opts)
HegvTrmm ==
    /\ call.routine = "hegv" /\ call.stage = "back"
    /\ call.type \notin SolveTypes
    /\ SetHegv([call EXCEPT
                  !.calls = Append(@, [fn |-> "trmm", on |-> "V", side |-> "Left", L |-> HegvL,
                                       opts |-> call.opts]),
                  !.stage = "return"])

HegvReturn ==
    /\ call.routine = "hegv" /\ call.stage = "return"
    /\ SetHegv([call EXCEPT !.stage = "returned"])

\* every call: the problem type, jobz, the views A and B (stored triangle, plain
\* or conjugate-transposed) and the target option
InitHegv ==
    /\ cfg = TrsmDriverConfig
    /\ DriverInit
    /\ tr = TrsmIdle
    /\ \E ty \in -1..MaxType, jz \in {"NoVec", "Vec"}, ua \in Uplos, ub \in Uplos,
          oa \in {"NoTrans", "ConjTrans"}, ob \in {"NoTrans", "ConjTrans"},
          o \in Options(Targets) :
          call = [routine |-> "hegv", type |-> ty, jobz |-> jz, opts |-> o,
                  given |-> [A |-> View(ua, oa), B |-> View(ub, ob)],
                  A |-> View(ua, oa), B |-> View(ub, ob),
                  stage |-> "entry", calls |-> <<>>]

NextHegv ==
    \/ HegvLowerA
    \/ HegvLowerB
    \/ HegvPotrf
    \/ HegvTrsm
    \/ HegvTrmm
    \/ HegvReturn

SpecHegv == InitHegv /\ [][NextHegv]_vars

Done == \A p \in Procs : pc[p].step = "done"

\* ================================================================== claims
PermOps == {"ppermute", "lperm", "tperm", "left"}
LookaheadOps == {"lperm", "ltrsm", "lbcast", "lgemm"}
UpdateOps == {"lperm", "ltrsm", "lbcast", "lgemm", "tperm", "ttrsm", "tbcast", "tgemm"}

\* positions of rank p's log holding a row permutation
PermAt(p) == {x \in DOMAIN log[p] : log[p][x].op \in PermOps}

\* positions of a tile history holding a row permutation
PermIn(t) == {x \in DOMAIN A[t] : A[t][x][1] = "perm"}

Panels == 0 .. (min_mt_nt - 1)

\* C1: on every rank, and in every tile, the pivot sequence of panel k is
\* applied to a block-column at most once over the run (panel, lookahead,
\* trailing and left-of-panel steps together)
C1_PermuteAtMostOnce ==
    /\ \A p \in Procs : \A x, y \in PermAt(p) :
          (x # y /\ log[p][x].k = log[p][y].k)
              => (log[p][x].j2 < log[p][y].j1 \/ log[p][y].j2 < log[p][x].j1)
    /\ \A t \in Tiles : \A x, y \in PermIn(t) : x # y => A[t][x][2] # A[t][y][2]

\* a finished 3 x 3 run with lookahead 1: panel 0 permuted column 1 in the
\* lookahead step and column 2 in the trailing step, panel 1 column 0 afterwards
C1_Witness ==
    /\ Done
    /\ A_mt = 3 /\ A_nt = 3 /\ lookahead = 1
    /\ \E x \in PermAt(0) : log[0][x] = Ev("lperm", 0, 1, 1)
    /\ \E x \in PermAt(0) : log[0][x] = Ev("tperm", 0, 2, 2)
    /\ \E x \in PermAt(0) : log[0][x] = Ev("left", 1, 0, 0)
    /\ Cardinality(PermIn(<<2, 1>>)) = 3

\* ---- the result of the factorization, written without reference to the
\* lookahead or to the process grid: the operations panel k applies to A(i, j)
PanelOps(k, i, j) ==
    LET perm == <<"perm", k, PanelPivots(k, Min(tileMb(k), tileNb(k)))>> IN
    IF i < k THEN <<>>
    ELSE IF j = k THEN <<perm, <<IF i = k THEN "copy" ELSE "trsmR", k, <<>> >> >>
    ELSE IF j > k THEN <<perm, <<IF i = k THEN "trsmL" ELSE "gemm", k, <<>> >> >>
    ELSE <<perm>>

RECURSIVE RefHist(_, _, _)
\* the operations of panels 0 .. n-1 on A(i, j), in panel order
RefHist(i, j, n) == IF n = 0 THEN <<>> ELSE RefHist(i, j, n - 1) \o PanelOps(n - 1, i, j)

\* C2: the factor tiles, the input of every panel factorization (hence the
\* pivots it computes) and the pivot table at the end do not depend on the
\* lookahead: they equal the lookahead-free reference
C2_LookaheadInvariantResult ==
    Done =>
        /\ \A t \in Tiles : A[t] = RefHist(t[1], t[2], min_mt_nt)
        /\ \A t \in Tiles : (t[2] < min_mt_nt /\ t[1] >= t[2])
                                => panelIn[t] = RefHist(t[1], t[2], t[2])
        /\ \A p \in Procs : \A k \in Panels :
              pivots[p][k + 1] = PanelPivots(k, Min(tileMb(k), tileNb(k)))

\* a finished 3 x 3 run on two ranks with the largest lookahead, min(mt,nt)-1
C2_Witness ==
    /\ Done
    /\ A_mt = 3 /\ A_nt = 3 /\ lookahead = min_mt_nt - 1 /\ cfg.p * cfg.q = 2
    /\ Len(A[<<2, 2>>]) = 6

\* C3: on every rank the factorization of panel k and the broadcasts of its
\* factored tiles precede every lookahead operation of panel k, and panel k+1
\* is factored only after every update of panel k to block-column k+1; the
\* tiles a rank factors in panel k+1 carry the multiply update of panel k
C3_PanelUpdateOrder ==
    /\ \A p \in Procs : \A x \in DOMAIN log[p] :
          log[p][x].op \in LookaheadOps =>
              LET k == log[p][x].k IN
              \E a \in 1..(x - 1) :
                  /\ log[p][a] = Ev("factor", k, k, k)
                  /\ \E b \in (a + 1)..(x - 1) :
                        /\ log[p][b] = Ev("dbcast", k, k, k)
                        /\ \E c \in (b + 1)..(x - 1) : log[p][c] = Ev("pbcast", k, k, k)
    /\ \A p \in Procs : \A x \in DOMAIN log[p] :
          (log[p][x].op = "factor" /\ log[p][x].k > 0) =>
              LET k == log[p][x].k IN
              /\ \E y \in 1..(x - 1) :
                    /\ log[p][y].op \in {"lgemm", "tgemm"}
                    /\ log[p][y].k = k - 1
                    /\ log[p][y].j1 <= k /\ k <= log[p][y].j2
              /\ \A y \in DOMAIN log[p] :
                    (log[p][y].op \in UpdateOps /\ log[p][y].k = k - 1
                        /\ log[p][y].j1 <= k /\ k <= log[p][y].j2) => y < x
              /\ \A t \in LocalIn(p, k, A_mt - 1, k, k) :
                    panelIn[t] # <<>> /\ panelIn[t][Len(panelIn[t])] = <<"gemm", k - 1, <<>> >>

\* rank 1 has factored panel 1 of a 3 x 3 matrix after a trailing update
\* (lookahead 0) of panel 0 touched its tile A(1,1)
C3_Witness ==
    /\ cfg.p = 2 /\ cfg.q = 1 /\ A_mt = 3 /\ A_nt = 3 /\ lookahead = 0
    /\ \E x \in DOMAIN log[1] : log[1][x] = Ev("factor", 1, 1, 1)
    /\ panelIn[<<1, 1>>] # <<>>

\* C4: on every rank a row swap with pivots.at(k) comes after that rank's
\* MPI_Bcast of panel k returned, and every swap applied to a tile used the
\* sequence the root of the broadcast sent
C4_SwapAfterPivotBcast ==
    /\ \A p \in Procs : \A x \in PermAt(p) :
          \E y \in 1..(x - 1) : log[p][y] = Ev("pivbcast", log[p][x].k, log[p][x].k, log[p][x].k)
    /\ \A t \in Tiles : \A x \in PermIn(t) :
          /\ A[t][x][3] # <<>>
          /\ A[t][x][3] = pivmsg[A[t][x][2] + 1]

\* rank 1, which does not own A(0,0), has swapped rows of its tile A(1,2) with
\* the pivots of panel 0 in the trailing step
C4_Witness ==
    /\ cfg.p = 2 /\ cfg.q = 1 /\ A_mt >= 2 /\ A_nt = 3 /\ lookahead = 0
    /\ \E x \in PermAt(1) : log[1][x] = Ev("tperm", 0, 1, 2)
    /\ PermIn(<<1, 2>>) # {}

\* C5: every block-column, on every rank and in every tile, receives the
\* pivot sequences in strictly increasing panel index
C5_PermuteIncreasingK ==
    /\ \A p \in Procs : \A x, y \in PermAt(p) :
          (x < y /\ log[p][x].j1 <= log[p][y].j2 /\ log[p][y].j1 <= log[p][x].j2)
              => log[p][x].k < log[p][y].k
    /\ \A t \in Tiles : \A x, y \in PermIn(t) : x < y => A[t][x][2] < A[t][y][2]

\* column 0 of a finished 3 x 3 run received panel 0 in the panel step and
\* panels 1 and 2 in the left-of-panel loop
C5_Witness ==
    /\ Done /\ A_mt = 3 /\ A_nt = 3
    /\ Cardinality(PermIn(<<2, 0>>)) = 3
    /\ \E x, y \in PermAt(0) : x < y /\ log[0][x] = Ev("left", 1, 0, 0)
                                     /\ log[0][y] = Ev("left", 2, 0, 1)

\* broadcasts of distinct (stage, panel, source tile) are distinct broadcasts
SameTagPairs(M) == {pr \in M \X M : pr[1].b # pr[2].b /\ pr[1].tag = pr[2].tag}

\* C6: two broadcasts that are active together carry distinct tags: the
\* entries of one broadcast list (they are served by one call), and any two
\* broadcasts with a message still in flight
C6_ActiveBcastTagsDistinct ==
    /\ \A x, y \in bcastLog :
          (x.b # y.b /\ x.b[1] = y.b[1] /\ x.b[2] = y.b[2]) => x.tag # y.tag
    /\ SameTagPairs(msgs) = {}

\* C7: no panel-column broadcast (tag i) shares its tag with a trailing-row
\* broadcast (tag j + mt), whatever the panels they belong to
C7_PanelTrailingTagsDisjoint ==
    \A x, y \in bcastLog : (x.b[1] = "panel" /\ y.b[1] = "trail") => x.tag # y.tag

\* both kinds of broadcast were issued, for different panels, in a 3 x 3 run
C7_Witness ==
    /\ A_mt = 3 /\ A_nt = 3 /\ lookahead = 0
    /\ \E x, y \in bcastLog : x.b = <<"panel", 1, 2, 1>> /\ y.b = <<"trail", 0, 0, 2>>

\* the last operation written to a broadcast tile in panel k: the copy-back
\* for A(k,k), the right solve for A(i,k), the left solve for A(k,j)
LastWrite(t, k) ==
    IF t = <<k, k>> THEN <<"copy", k, <<>> >>
    ELSE IF t[2] = k THEN <<"trsmR", k, <<>> >>
    ELSE <<"trsmL", k, <<>> >>

IsPrefix(h, g) == Len(h) <= Len(g) /\ SubSeq(g, 1, Len(h)) = h

\* C8: every tile travels with its last write of panel k applied, and every
\* solve or multiply reads the tile in that state: its own tile, or a copy
\* that has been delivered and equals what the owner holds
C8_BcastAfterWriteBeforeRead ==
    /\ \A m \in msgs :
          m.data # <<>> /\ m.data[Len(m.data)] = LastWrite(m.tile, m.b[2])
    /\ \A p \in Procs : \A r \in reads[p] :
          /\ r.data # NoCopy /\ r.data # <<>>
          /\ r.data[Len(r.data)] = LastWrite(r.tile, r.k)
          /\ IsPrefix(r.data, A[r.tile])

\* rank 1 multiplied in the trailing update of panel 0 with the delivered
\* copies of the remote tiles A(0,0) (solve) and A(0,2) (multiply)
C8_Witness ==
    /\ cfg.p = 2 /\ cfg.q = 1 /\ A_mt >= 2 /\ A_nt = 3
    /\ \E r \in reads[1] : r.op = "ptrsm" /\ r.tile = <<0, 0>> /\ r.data = A[<<0, 0>>]
    /\ \E r \in reads[1] : r.op = "tgemm" /\ r.tile = <<0, 2>>
                            /\ ~tileIsLocal(1, 0, 2) /\ r.data = A[<<0, 2>>]

ReaderOps == {"ptrsm", "ltrsm", "lgemm", "ttrsm", "tgemm"}

\* C9: with target Devices no solve or multiply of panel k follows the release
\* tasks of panel k on a rank, and every read of A(k,k) (and of A(i,k) when
\* broadcast shared) found the tile still held
C9_ReleaseAfterLastReader ==
    target = "Devices" =>
        /\ \A p \in Procs : \A x \in DOMAIN log[p] :
              log[p][x].op \in {"reldiag", "relpanel"} =>
                  \A y \in (x + 1)..Len(log[p]) :
                      ~(log[p][y].op \in ReaderOps /\ log[p][y].k = log[p][x].k)
        /\ \A p \in Procs : \A r \in reads[p] :
              (r.tile = <<r.k, r.k>> \/ (is_shared /\ r.tile[2] = r.k /\ r.tile[1] > r.k))
                  => r.held

\* on one rank with devices, panel 0 of a 3 x 3 matrix has been released after
\* the lookahead and trailing updates read A(0,0) and A(1,0); panel 1 goes on
C9_Witness ==
    /\ target = "Devices" /\ cfg.p * cfg.q = 1 /\ A_mt = 3 /\ A_nt = 3 /\ lookahead = 1
    /\ \E r \in reads[0] : r.op = "ttrsm" /\ r.tile = <<0, 0>> /\ r.held
    /\ \E r \in reads[0] : r.op = "tgemm" /\ r.tile = <<1, 0>> /\ r.held
    /\ \E x \in DOMAIN log[0] : log[0][x] = Ev("relpanel", 0, 0, 0)
    /\ <<0, 0>> \notin holds[0] /\ <<1, 0>> \notin holds[0]
    /\ pc[0].k = 1

\* C10: a rank that has returned holds min(mt,nt) pivot sequences, sequence k
\* of length min(tileMb(k), tileNb(k)) and equal to the sequence the owner of
\* A(k,k) computed
C10_PivotTableReplicated ==
    \A p \in Procs : pc[p].step = "done" =>
        /\ Len(pivots[p]) = Min(A_mt, A_nt)
        /\ \A k \in 0..(Min(A_mt, A_nt) - 1) :
              /\ Len(pivots[p][k + 1]) = Min(tileMb(k), tileNb(k))
              /\ pivots[p][k + 1] = pivots[tileRank(k, k)][k + 1]
              /\ pivots[p][k + 1] =
                    [x \in 1..Min(tileMb(k), tileNb(k)) |-> PivotRecord(cfg.piv[k + 1], x)]

\* both ranks returned from a 3 x 2 run whose last tile column is one wide and
\* whose pivots of panel 0 lie in the last tile: sequence 1 has one record
C10_Witness ==
    /\ Done /\ cfg.p * cfg.q = 2
    /\ A_mt = 3 /\ A_nt = 2 /\ cfg.nbLast = 1 /\ cfg.mbLast = NB
    /\ cfg.piv[1] = 2
    /\ Len(pivots[1][2]) = 1 /\ Len(pivots[1][1]) = NB
    /\ pivots[1][1][1] = <<2, 0>>

\* the events of log[p], as a set
Logged(p) == {log[p][x] : x \in DOMAIN log[p]}

\* rank p went through the whole of panel k: the panel step, the update of
\* every column right of it (by the lookahead or by the trailing step) and,
\* for k > 0, the permutation of the columns left of it
PanelComplete(p, k) ==
    /\ \A op \in {"alloc", "factor", "pivbcast", "ppermute", "copy", "dbcast",
                  "clear", "ptrsm", "pbcast"} : Ev(op, k, k, k) \in Logged(p)
    /\ \A j \in (k + 1)..(A_nt - 1) :
          \/ \A op \in LookaheadOps : Ev(op, k, j, j) \in Logged(p)
          \/ \E j1 \in (k + 1)..j :
                \A op \in {"tperm", "ttrsm", "tbcast", "tgemm"} :
                    Ev(op, k, j1, A_nt - 1) \in Logged(p)
    /\ k > 0 => Ev("left", k, 0, k - 1) \in Logged(p)

\* C12: a zero diagonal pivot never stops the factorization early: a rank
\* that returned went through every one of the min(mt,nt) panels, their
\* updates and the left-of-panel permutation, whatever panels are singular
C12_ZeroPivotNeverStops ==
    \A p \in Procs :
        pc[p].step = "done" => \A k \in 0..(min_mt_nt - 1) : PanelComplete(p, k)

\* a 3 x 3 run whose first panel has a zero pivot has returned on both ranks,
\* with the last panel factored and permuted to the left
C12_Witness ==
    /\ Done /\ A_mt = 3 /\ A_nt = 3 /\ cfg.zero = {0}
    /\ \A p \in Procs : Ev("factor", 2, 2, 2) \in Logged(p)
                          /\ Ev("left", 2, 0, 1) \in Logged(p)

\* ---- claims about the public routines
Returned == call.stage = "returned"

\* the index the caller is to be told: the first panel with an exactly-zero
\* pivot, 0 when there is none
SingularIndex ==
    IF cfg.zero = {} THEN 0 ELSE CHOOSE k \in cfg.zero : \A x \in cfg.zero : k <= x

\* C11: when getrf_ca has returned, the caller has been told the index of the
\* first exactly-zero diagonal pivot, or 0 when no pivot is zero
C11_ReportsSingularIndex ==
    (Returned /\ call.routine = "getrf_ca" /\ call.ran # <<>>)
        => call.reported = {SingularIndex}

\* the documented ranges of the options
LookaheadInRange(v) == v >= 0
IbInRange(v) == v >= 1
MaxPanelThreadsInRange(v) == v >= 1

\* option o is present with a value outside its documented range
Invalid(o, InRange(_)) == o # Absent /\ ~InRange(Value(o))

\* C13: a call with an out-of-range option value does not fail, and the
\* option takes its documented default
C13_InvalidOptionFallsBack ==
    /\ Invalid(call.opts.lookahead, LookaheadInRange)
          => /\ call.stage # "aborted"
             /\ call.lookahead \in {{}, {1}}
    /\ Invalid(call.opts.ib, IbInRange)
          => /\ call.stage # "aborted"
             /\ call.ib \in {{}, {16}}
    /\ Invalid(call.opts.max_panel_threads, MaxPanelThreadsInRange)
          => /\ call.stage # "aborted"
             /\ call.max_panel_threads
                  \in {{}, {IF call.host_threads \div 2 >= 1
                            THEN call.host_threads \div 2 ELSE 1}}

\* the value an option has once parsed: the default when absent, else its own
Expected(o, default) == IF o = Absent THEN {default} ELSE o

Selected(o) ==
    IF o = Absent \/ o = {"Host"} THEN "HostTask" ELSE Value(o)

PanelSteps == {"factor", "pivbcast", "ppermute", "copy", "dbcast", "clear"}

\* the block-columns that have a tile in rank p's workspace
WorkPanels(p) == {w[2] : w \in Awork[p]}

\* C16: the workspace tiles of panel k are present from before the panel is
\* factored until they are cleared, which happens before panel k+1 begins: on
\* every rank the workspace holds exactly the rank's tiles of the current
\* panel during the panel step, and nothing at any other point, the return
\* included
C16_WorkspaceOnePanel ==
    \A p \in Procs :
        /\ Cardinality(WorkPanels(p)) <= 1
        /\ IF pc[p].step \in PanelSteps
           THEN {<<w[1], w[2]>> : w \in Awork[p]}
                    = LocalIn(p, pc[p].k, A_mt - 1, pc[p].k, pc[p].k)
           ELSE Awork[p] = {}

\* rank 0 is about to factor panel 1 with its tiles of panel 1 in the
\* workspace, after the workspace of panel 0 was cleared
C16_Witness ==
    /\ At(0, "factor") /\ pc[0].k = 1
    /\ Awork[0] # {} /\ WorkPanels(0) = {1}
    /\ Ev("clear", 0, 0, 0) \in Logged(0)
    /\ LocalIn(0, 0, A_mt - 1, 0, 0) # {}

\* ---- writers of a block-column
\* the kernel operation a completed step e writes into tile t, <<>> if none
WriteOf(e, t) ==
    LET i == t[1]
        j == t[2]
        k == e.k
        inCols == e.j1 <= j /\ j <= e.j2 IN
    IF e.op \in {"ppermute", "lperm", "tperm", "left"} /\ inCols /\ i >= k THEN <<"perm", k>>
    ELSE IF e.op = "copy" /\ t = <<k, k>> THEN <<"copy", k>>
    ELSE IF e.op = "ptrsm" /\ j = k /\ i > k THEN <<"trsmR", k>>
    ELSE IF e.op \in {"ltrsm", "ttrsm"} /\ inCols /\ i = k THEN <<"trsmL", k>>
    ELSE IF e.op \in {"lgemm", "tgemm"} /\ inCols /\ i > k THEN <<"gemm", k>>
    ELSE <<>>

\* the writes to tile t among the first n steps of the sequence l, in order
RECURSIVE WritesIn(_, _, _)
WritesIn(l, t, n) ==
    IF n = 0 THEN <<>>
    ELSE LET w == WriteOf(l[n], t) IN
         IF w = <<>> THEN WritesIn(l, t, n - 1) ELSE Append(WritesIn(l, t, n - 1), w)

\* C17: a step that writes a block-column never overlaps another step on a
\* tile of that column: the writes every tile has received are exactly the
\* writing steps its owner has completed on the tile's column, one after the
\* other in the owner's program order, and a rank stands in one step at a time
C17_ColumnWritersSerialized ==
    \A t \in Tiles :
        [x \in DOMAIN A[t] |-> <<A[t][x][1], A[t][x][2]>>]
            = WritesIn(log[tileRank(t[1], t[2])], t, Len(log[tileRank(t[1], t[2])]))

\* on two ranks, tile (2,2) has received the trailing update of panel 0 and
\* the lookahead update of panel 1, both made by its owner
C17_Witness ==
    /\ Cardinality(Procs) = 2 /\ A_mt = 3 /\ A_nt = 3 /\ lookahead = 1
    /\ \E x, y \in DOMAIN A[<<2, 2>>] :
          x < y /\ A[<<2, 2>>][x] = <<"gemm", 0, <<>> >> /\ A[<<2, 2>>][y] = <<"gemm", 1, <<>> >>
    /\ Ev("tgemm", 0, 2, 2) \in Logged(tileRank(2, 2))
    /\ Ev("lgemm", 1, 2, 2) \in Logged(tileRank(2, 2))

\* ---- termination
\* the panels rank p has factored so far
Factored(p) == {x \in DOMAIN log[p] : log[p][x].op = "factor"}

\* every rank has returned after exactly min(mt,nt) panel steps, and every
\* tile message sent by a broadcast has been received
Terminated ==
    /\ Done
    /\ msgs = {}
    /\ \A p \in Procs : /\ Cardinality(Factored(p)) = min_mt_nt
                        /\ \A k \in 0..(min_mt_nt - 1) : Ev("factor", k, k, k) \in Logged(p)

\* C18: for every tile grid and every lookahead the call terminates: under
\* fair scheduling of the ranks every rank returns, having made exactly
\* min(mt,nt) panel steps, with every broadcast completed
C18_Terminates == <>Terminated

\* a 3 x 3 run with lookahead 1 on two ranks has terminated
C18_Witness ==
    /\ Terminated /\ A_mt = 3 /\ A_nt = 3 /\ lookahead = 1 /\ Cardinality(Procs) = 2
    /\ \E x \in bcastLog : x.b[1] = "trail"

\* ---- the factors
\* the row that the recorded pivot sequence of panel k swaps with row k
PivotOf(k) == k + pivots[0][k + 1][1][1]

\* the rows of P^T A after the first n pivot sequences: row i is row RowMap(n)[i] of A
RECURSIVE RowMap(_)
RowMap(n) ==
    IF n = 0 THEN [i \in 0..(A_mt - 1) |-> i]
    ELSE LET r == RowMap(n - 1)
             k == n - 1 IN
         [i \in 0..(A_mt - 1) |->
            IF i = k THEN r[PivotOf(k)] ELSE IF i = PivotOf(k) THEN r[k] ELSE r[i]]

\* L (unit diagonal, not stored) strictly below the diagonal, U on and above it
L(i, l) == IF i = l THEN 1 ELSE IF i > l THEN Now(<<i, l>>) ELSE 0
U(l, j) == IF l <= j THEN Now(<<l, j>>) ELSE 0

\* the element (i, j) of L U, summed over the first n columns of L
RECURSIVE LU(_, _, _)
LU(i, j, n) ==
    IF n = 0 THEN 0 ELSE FAdd(LU(i, j, n - 1), FMul(L(i, n - 1), U(n - 1, j)))

NoZeroPivot == \A l \in 0..(min_mt_nt - 1) : Now(<<l, l>>) \notin {0, NaN}

\* C19: when the factorization of a matrix has returned and no pivot is
\* zero, L U computed from the tiles of A equals the original matrix with its
\* rows permuted by the recorded pivot sequences
C19_FactorsReproduceA ==
    (Done /\ HasData /\ NoZeroPivot) =>
        \A t \in Tiles : LU(t[1], t[2], min_mt_nt) = cfg.a[<<RowMap(min_mt_nt)[t[1]], t[2]>>]

\* a 3 x 3 matrix has been factored with a row swap in panels 0 and 1 and a
\* non-zero multiplier in L
C19_Witness ==
    /\ Done /\ HasData /\ NoZeroPivot /\ A_mt = 3 /\ A_nt = 3
    /\ PivotOf(0) # 0 /\ PivotOf(1) # 1
    /\ \E t \in Tiles : t[1] > t[2] /\ Now(t) # 0

\* C20: the identity factors with no effective row swap (every pivot record
\* maps its row to itself), A is left equal to the identity (L = I, U = I),
\* no pivot is zero and no singular index is reported
C20_IdentityFactorsTrivially ==
    (Done /\ HasData /\ A_mt = A_nt /\ cfg.a = Identity(A_mt, A_nt)) =>
        /\ \A p \in Procs : \A k \in 0..(min_mt_nt - 1) : pivots[p][k + 1] = << <<0, 0>> >>
        /\ \A t \in Tiles : Now(t) = Identity(A_mt, A_nt)[t]
        /\ NoZeroPivot
        /\ call.reported = {}

\* the identity on a 4 x 4 tile grid has been factored
C20_Witness ==
    /\ Done /\ HasData /\ A_mt = 4 /\ A_nt = 4 /\ cfg.a = Identity(4, 4)
    /\ \A k \in 0..3 : Ev("factor", k, k, k) \in Logged(0)

\* ---- the factorization as a function of the matrix alone
\* the first row of maximal magnitude in column k of M, rows k..mt-1
RefPivot(M, k) ==
    CHOOSE i \in k..(A_mt - 1) :
        \A x \in k..(A_mt - 1) : /\ Mag(M[<<x, k>>]) <= Mag(M[<<i, k>>])
                                 /\ x < i => Mag(M[<<x, k>>]) < Mag(M[<<i, k>>])

\* one step of right-looking LU with partial pivoting on M
RefStep(M, k) ==
    LET r == RefPivot(M, k)
        S == [t \in Tiles |-> IF t[1] = k THEN M[<<r, t[2]>>]
                              ELSE IF t[1] = r THEN M[<<k, t[2]>>] ELSE M[t]]
        l(i) == FDiv(S[<<i, k>>], S[<<k, k>>]) IN
    [t \in Tiles |-> IF t[1] <= k \/ t[2] < k THEN S[t]
                     ELSE IF t[2] = k THEN l(t[1])
                     ELSE FSub(S[t], FMul(l(t[1]), S[<<k, t[2]>>]))]

RECURSIVE RefLU(_)
\* the matrix after the first n steps
RefLU(n) == IF n = 0 THEN cfg.a ELSE RefStep(RefLU(n - 1), n - 1)

\* C21: on every process grid the pivot sequences of every rank and the
\* factor elements at the end are those of the factorization computed from the
\* matrix alone, hence the same on 1, 2 and 4 processes
C21_GridInvariantResult ==
    (Done /\ HasData) =>
        /\ \A t \in Tiles : Now(t) = RefLU(min_mt_nt)[t]
        /\ \A p \in Procs : \A k \in Panels :
              pivots[p][k + 1] = << <<RefPivot(RefLU(k), k) - k, 0>> >>

\* a 3 x 2 matrix distributed over four processes has been factored with a
\* row swap in panel 0 and in panel 1
C21_Witness ==
    /\ Done /\ HasData /\ cfg.p * cfg.q = 4 /\ A_mt = 3 /\ A_nt = 2
    /\ pivots[3][1][1][1] # 0 /\ pivots[3][2][1][1] # 0
    /\ NoZeroPivot

\* ---- gbsv
\* the value gbsv is documented to return: 0, or i > 0 when U(i,i), the pivot
\* of panel i-1, is the first that is exactly zero
GbsvRetval == IF cfg.zero = {} THEN 0 ELSE SingularIndex + 1

\* the calls of fn the routine has made
CallsOf(fn) == {x \in DOMAIN call.calls : call.calls[x].fn = fn}

\* C22: when gbsv has returned after running a backend, the caller has been
\* given GbsvRetval, the factorization has been done, and the solve has been
\* done (B overwritten with X) exactly when that value is 0
C22_GbsvReturnsAndSolvesWhenRegular ==
    (Returned /\ call.routine = "gbsv" /\ call.ran # <<>>) =>
        /\ call.reported = {GbsvRetval}
        /\ CallsOf("gbtrf") # {}
        /\ (CallsOf("gbtrs") # {}) <=> (GbsvRetval = 0)

\* ---- layouts of the row permutations
\* the layouts of the permuteRows calls rank p has made
LayoutsUsed(p) == {PermuteLayout(log[p][x].op) : x \in PermAt(p)}

Steps(p, k, j, ops) ==
    {x \in DOMAIN log[p] : /\ log[p][x].op \in ops /\ log[p][x].k = k
                           /\ log[p][x].j1 <= j /\ j <= log[p][x].j2}

\* the operations named op that panel k has applied to tile t
OpsIn(t, op, k) == {x \in DOMAIN A[t] : A[t][x][1] = op /\ A[t][x][2] = k}

StepKinds == {{"lperm", "tperm"}, {"ltrsm", "ttrsm"}, {"lbcast", "tbcast"}, {"lgemm", "tgemm"}}

\* C24: for every panel k and column j > k every rank runs at most one, and
\* by its return exactly one, row permutation, solve of A(k,j), broadcast of
\* A(k,j) and multiply-accumulate covering column j; they belong to the
\* lookahead step exactly when j <= k + lookahead; every tile of the column
\* from row k down is permuted once, A(k,j) solved once and every tile below
\* it updated once; columns j <= k get no step and no solve or update of panel k
C24_EachColumnProcessedOnce ==
    \A k \in Panels :
        /\ \A p \in Procs : \A j \in 0..(A_nt - 1) :
              IF j > k
              THEN /\ \A kind \in StepKinds :
                        /\ Cardinality(Steps(p, k, j, kind)) <= 1
                        /\ pc[p].step = "done" => Cardinality(Steps(p, k, j, kind)) = 1
                   /\ \A x \in Steps(p, k, j, UpdateOps) :
                        log[p][x].op \in LookaheadOps <=> j <= k + lookahead
              ELSE Steps(p, k, j, UpdateOps) = {}
        /\ \A t \in Tiles :
              IF t[2] > k /\ t[1] >= k
              THEN /\ Cardinality(OpsIn(t, "perm", k)) <= 1
                   /\ Cardinality(OpsIn(t, "trsmL", k)) <= (IF t[1] = k THEN 1 ELSE 0)
                   /\ Cardinality(OpsIn(t, "gemm", k)) <= (IF t[1] > k THEN 1 ELSE 0)
                   /\ Done => Cardinality(OpsIn(t, "perm", k) \cup OpsIn(t, "trsmL", k)
                                             \cup OpsIn(t, "gemm", k)) = 2
              ELSE OpsIn(t, "trsmL", k) \cup OpsIn(t, "gemm", k) = {}

\* a finished 3 x 3 run with lookahead 1 on two ranks: for panel 0 column 1 was
\* processed by the lookahead step and column 2 by the trailing step
C24_Witness ==
    /\ Done /\ A_mt = 3 /\ A_nt = 3 /\ lookahead = 1 /\ cfg.p * cfg.q = 2
    /\ \E x \in Steps(1, 0, 1, {"lgemm"}) : log[1][x] = Ev("lgemm", 0, 1, 1)
    /\ \E x \in Steps(1, 0, 2, {"tgemm"}) : log[1][x] = Ev("tgemm", 0, 2, 2)
    /\ Cardinality(OpsIn(<<2, 2>>, "gemm", 0)) = 1
    /\ Cardinality(OpsIn(<<2, 2>>, "gemm", 1)) = 1

\* ---- listBcastMT
BcastMTOps == {"pbcast", "tbcast"}

\* the listBcastMT calls rank p has completed
BcastMTDone(p) == {x \in DOMAIN log[p] : log[p][x].op \in BcastMTOps}

\* the listBcastMT calls that precede, in program order, the one of panel k
\* named op
BcastMTBefore(op, k) ==
    {Ev("pbcast", n, n, n) : n \in 0..(IF op = "tbcast" THEN k ELSE k - 1)}
    \cup {Ev("tbcast", n, TrailingFirst(n), A_nt - 1) :
            n \in {x \in 0..(k - 1) : TrailingFirst(x) < A_nt}}

Sweeping == tr.stage = "sweep"

\* the tasks other than panel tasks that update block row i of B
Updates(i) == {u \in 1..Len(Tasks) : Tasks[u].kind # "panel" /\ i \in Tasks[u].writes}

\* the steps whose update a block row has received
StepsIn(i) == {tr.rows[i][x].k : x \in DOMAIN tr.rows[i]}

\* C26: in the forward sweep, while the panel task of step k runs, every
\* update of block row k of a step k' < k, by a lookahead or a trailing task,
\* has completed: row k has received the updates of steps 0 .. k-1, each once
C26_ForwardPanelAfterUpdates ==
    (Sweeping /\ Forward) =>
        \A t \in tr.running : Tasks[t].kind = "panel" =>
            LET k == Tasks[t].k IN
            /\ \A u \in Updates(k) : Tasks[u].k < k => u \in tr.done
            /\ StepsIn(k) = 0..(k - 1) /\ Len(tr.rows[k]) = k

\* forward sweep on 4 block rows, lookahead 0: the panel task of step 2 runs;
\* row 2 was updated by the trailing task of step 0, which names row[1] and row[3]
C26_Witness ==
    /\ Sweeping /\ Forward /\ tr.mt = 4 /\ tr.lookahead = 0
    /\ \E t \in tr.running : Tasks[t].kind = "panel" /\ Tasks[t].k = 2
    /\ \E u \in tr.done : /\ Tasks[u].kind = "trailing" /\ Tasks[u].k = 0
                          /\ 2 \in Tasks[u].writes /\ 2 \notin Tasks[u].inout

\* C27: in the backward sweep, while the panel task of step k runs, every
\* update of block row k of a step k' > k has completed: row k has received
\* the updates of steps mt-1 .. k+1, each once
C27_BackwardPanelAfterUpdates ==
    (Sweeping /\ ~Forward) =>
        \A t \in tr.running : Tasks[t].kind = "panel" =>
            LET k == Tasks[t].k IN
            /\ \A u \in Updates(k) : Tasks[u].k > k => u \in tr.done
            /\ StepsIn(k) = (k + 1)..(tr.mt - 1) /\ Len(tr.rows[k]) = tr.mt - 1 - k

\* backward sweep on 4 block rows, lookahead 0: the panel task of step 1 runs;
\* row 1 was updated by the trailing task of step 3, which names row[2] and row[0]
C27_Witness ==
    /\ Sweeping /\ ~Forward /\ tr.mt = 4 /\ tr.lookahead = 0
    /\ \E t \in tr.running : Tasks[t].kind = "panel" /\ Tasks[t].k = 1
    /\ \E u \in tr.done : /\ Tasks[u].kind = "trailing" /\ Tasks[u].k = 3
                          /\ 1 \in Tasks[u].writes /\ 1 \notin Tasks[u].inout

\* C28: no two running tasks write the same block row of B, and no running
\* task reads as its multiply operand a block row that another running task
\* writes, in either sweep and for every lookahead
C28_RowWritersExclusive ==
    Sweeping =>
        \A t \in tr.running : \A u \in tr.running \ {t} :
            /\ Tasks[t].writes \cap Tasks[u].writes = {}
            /\ Tasks[t].reads \cap Tasks[u].writes = {}

\* backward sweep on 4 block rows, lookahead 1: the lookahead task and the
\* trailing task of step 3 run at the same time, both reading row 3
C28_Witness ==
    /\ Sweeping /\ ~Forward /\ tr.mt = 4 /\ tr.lookahead = 1
    /\ \E t \in tr.running : \E u \in tr.running :
          /\ Tasks[t].kind = "lookahead" /\ Tasks[u].kind = "trailing"
          /\ Tasks[t].k = 3 /\ Tasks[u].k = 3
          /\ Tasks[t].reads = {3} /\ Tasks[u].reads = {3}
          /\ Tasks[u].writes = {0, 1}

\* ---- trsm: scaling by alpha
\* the step the sweep begins with
FirstStep == IF Forward THEN 0 ELSE tr.mt - 1

\* the steps up to and including step i, in sweep order
StepsTo(i) == IF Forward THEN 0..i ELSE i..(tr.mt - 1)

\* C29: every block row receives at most one operation per step: the solve
\* of its own step and one update for every step before it in sweep order, and
\* by the return exactly these; the operation of the first step carries the
\* factor alpha and every other the factor 1, so the row is scaled by alpha once
C29_ScaledByAlphaOnce ==
    tr.stage \in {"sweep", "returned"} =>
        \A i \in DOMAIN tr.rows :
            LET h == tr.rows[i] IN
            /\ \A x \in DOMAIN h : \A y \in DOMAIN h : h[x].k = h[y].k => x = y
            /\ \A x \in DOMAIN h : /\ h[x].k \in StepsTo(i)
                                   /\ h[x].op = "trsm" <=> h[x].k = i
                                   /\ h[x].alph = "alpha" <=> h[x].k = FirstStep
            /\ tr.stage = "returned" =>
                  /\ StepsIn(i) = StepsTo(i)
                  /\ Cardinality({x \in DOMAIN h : h[x].alph = "alpha"}) = 1

\* a backward sweep on 3 block rows has returned: row 0 was scaled by the
\* update of step 2, updated by step 1 and solved in step 0
C29_Witness ==
    /\ tr.stage = "returned" /\ ~Forward /\ tr.mt = 3
    /\ tr.rows[0] = <<[op |-> "gemm", k |-> 2, alph |-> "alpha"],
                      [op |-> "gemm", k |-> 1, alph |-> "one"],
                      [op |-> "trsm", k |-> 0, alph |-> "one"]>>
    /\ tr.rows[2] = <<[op |-> "trsm", k |-> 2, alph |-> "alpha"]>>

\* ---- trsm: the caller's views
\* C30: a call with side = Right leaves the caller's views A and B with the
\* operation they were given, at every point and at the return; the views the
\* sweep works on are the (conjugate-)transposed copies, alpha being
\* conjugated with them
C30_CallerViewsKept ==
    (tr.stage # "idle" /\ tr.side = "Right") =>
        /\ tr.callerA = tr.given.A /\ tr.callerB = tr.given.B
        /\ tr.stage \in {"sweep", "returned"} =>
              LET cj == "ConjTrans" \in {tr.given.A, tr.given.B} IN
              /\ tr.A = (IF cj THEN conj_transpose(tr.given.A) ELSE transpose(tr.given.A))
              /\ tr.B = (IF cj THEN conj_transpose(tr.given.B) ELSE transpose(tr.given.B))
              /\ tr.A # tr.callerA /\ tr.B # tr.callerB
              /\ tr.alpha = (IF cj THEN "conj(alpha)" ELSE "alpha")

\* a call with side = Right on a conjugate-transposed A and a plain B has
\* returned: the copies are NoTrans and ConjTrans, alpha was conjugated
C30_Witness ==
    /\ tr.stage = "returned" /\ tr.side = "Right"
    /\ tr.given = [A |-> "ConjTrans", B |-> "NoTrans"]
    /\ tr.A = "NoTrans" /\ tr.B = "ConjTrans" /\ tr.alpha = "conj(alpha)"
    /\ tr.callerA = "ConjTrans" /\ tr.callerB = "NoTrans"

\* ---- getrf_ca: the mode of each broadcast
\* the stage whose broadcast brought the tile that the read r of panel r.k saw
StageOf(r) ==
    CASE r.tile = <<r.k, r.k>> -> "diag"
      [] r.tile[2] = r.k /\ r.tile[1] > r.k -> "panel"
      [] r.tile[1] = r.k /\ r.tile[2] > r.k ->
            IF r.tile[2] < TrailingFirst(r.k) THEN "la" ELSE "trail"

\* the solve and multiply steps of panel r.k that read the tile of r on rank p
Consumers(p, r) ==
    {<<x.op, x.j>> : x \in {y \in reads[p] : y.tile = r.tile /\ y.k = r.k}}

\* C31: a broadcast tile read by more than one step of its panel was
\* broadcast in shared mode; the diagonal tile is always broadcast shared and
\* the panel tiles exactly when lookahead > 0; a tile broadcast in single-use
\* mode is read by exactly one step; on devices the tile is held at a read
\* exactly when its broadcast was shared
C31_SharedWhenReused ==
    \A p \in Procs : \A r \in reads[p] :
        /\ [b |-> <<StageOf(r), r.k, r.tile[1], r.tile[2]>>] \in
               {[b |-> x.b] : x \in bcastLog}
        /\ Cardinality(Consumers(p, r)) > 1 => BcastShared(StageOf(r))
        /\ StageOf(r) = "diag" => BcastShared(StageOf(r))
        /\ StageOf(r) = "panel" => (BcastShared(StageOf(r)) <=> lookahead > 0)
        /\ ~BcastShared(StageOf(r)) => Cardinality(Consumers(p, r)) = 1
        /\ target = "Devices" => (r.held <=> BcastShared(StageOf(r)))

\* with lookahead = 1 on a 3x3 grid rank 0 has read the panel tile A(1,0) in
\* the lookahead multiply and in the trailing multiply, and the row tile
\* A(0,2) in the trailing multiply only
C31_Witness ==
    /\ A_mt = 3 /\ A_nt = 3 /\ lookahead = 1 /\ target = "Devices"
    /\ \E r \in reads[0] : r.tile = <<1, 0>> /\ r.k = 0 /\ r.held
            /\ Consumers(0, r) = {<<"lgemm", 1>>, <<"tgemm", 2>>}
    /\ \E r \in reads[0] : r.tile = <<0, 2>> /\ r.k = 0 /\ ~r.held
            /\ Consumers(0, r) = {<<"tgemm", 2>>}

\* ---- getrf_ca: the block that copies the diagonal tile back
\* mutant: the copy-back and the clear are a block of their own after the
\* trailing update, as in the block that is commented out
BlockOf_copyTask(op) ==
    CASE op \in {"factor", "pivbcast", "ppermute", "dbcast"} -> "panel"
      [] op \in {"copy", "clear"} -> "copyback"
      [] op \in {"ptrsm", "pbcast"} -> "update panel"
      [] op \in {"lperm", "ltrsm", "lbcast", "lgemm"} -> "lookahead"
      [] op \in {"tperm", "ttrsm", "tbcast", "tgemm"} -> "trailing"
      [] op = "reldiag" -> "release diag"
      [] op = "relpanel" -> "release panel"
      [] OTHER -> "driver"

\* the braced block of the k loop (the body of a task where the pragma is
\* live) that issues each step
BlockOf(op) ==
    CASE op \in {"factor", "pivbcast", "ppermute", "copy", "dbcast", "clear"} -> "panel"
      [] op \in {"ptrsm", "pbcast"} -> "update panel"
      [] op \in {"lperm", "ltrsm", "lbcast", "lgemm"} -> "lookahead"
      [] op \in {"tperm", "ttrsm", "tbcast", "tgemm"} -> "trailing"
      [] op = "reldiag" -> "release diag"
      [] op = "relpanel" -> "release panel"
      [] OTHER -> "driver"

\* on rank p the copy-back logged at x comes before the diagonal broadcast and
\* the clear of its panel, and the tile that travels carries the copy
CopyBeforeBcastAndClear(p, x) ==
    LET k == log[p][x].k IN
    /\ \A z \in DOMAIN log[p] :
          (log[p][z].op \in {"dbcast", "clear"} /\ log[p][z].k = k) => z > x
    /\ \A m \in msgs : (m.b[1] = "diag" /\ m.b[2] = k /\ m.from = p) =>
          \E n \in DOMAIN m.data : m.data[n][1] = "copy" /\ m.data[n][2] = k

\* the statement as written: the copy-back is a block of its own, apart from
\* the block that factors the panel
C32_CopyBackSeparateTask ==
    \A p \in Procs : \A x \in DOMAIN log[p] :
        log[p][x].op = "copy" =>
            /\ BlockOf("copy") # BlockOf("factor")
            /\ CopyBeforeBcastAndClear(p, x)

\* C32: the copy-back of the factored diagonal tile is issued by the block
\* that factors the panel, with nothing of another block between the
\* factorization and the copy; it completes before A(k,k) is broadcast and
\* before the workspace of panel k is cleared
C32_CopyBackInPanelBlock ==
    \A p \in Procs : \A x \in DOMAIN log[p] :
        log[p][x].op = "copy" =>
            /\ BlockOf("copy") = BlockOf("factor")
            /\ \E y \in 1..(x - 1) :
                  /\ log[p][y].op = "factor" /\ log[p][y].k = log[p][x].k
                  /\ \A z \in y..x : /\ BlockOf(log[p][z].op) = BlockOf("factor")
                                      /\ log[p][z].k = log[p][x].k
            /\ CopyBeforeBcastAndClear(p, x)

\* on two ranks the owner of A(1,1) copied the diagonal tile of panel 1 back,
\* then broadcast it and cleared the workspace; the tile carries the copy
C32_Witness ==
    /\ Cardinality(Procs) = 2
    /\ \E p \in Procs :
          /\ tileIsLocal(p, 1, 1)
          /\ {Ev("copy", 1, 1, 1), Ev("dbcast", 1, 1, 1), Ev("clear", 1, 1, 1)}
                \subseteq Logged(p)
    /\ \E n \in DOMAIN A[<<1, 1>>] : A[<<1, 1>>][n][1] = "copy"

\* ---- getrf_ca: holds left at the return
\* C33: with target Devices no rank still holds a tile of A when getrf_ca
\* has returned on it: every hold set by a shared broadcast of panel k was
\* unset by the release tasks of panel k
C33_NoHoldAtReturn ==
    \A p \in Procs : (target = "Devices" /\ At(p, "done")) => holds[p] = {}

\* ---- getrf_ca: priorities and queues of the kernels
HighSteps == {"factor", "ppermute", "ptrsm", "lperm", "ltrsm", "lgemm"}
NormalSteps == {"tperm", "ttrsm", "tgemm"}

\* C34: every panel-step and lookahead-step operation (panel factorization,
\* panel permutation, right solve on the panel, lookahead permutation, solve
\* and multiply) was issued with priority 1, every trailing-step operation
\* (permutation, solve, multiply) with priority 0
C34_PriorityByStep ==
    \A p \in Procs : \A e \in Logged(p) :
        /\ e.op \in HighSteps => e.priority = {1}
        /\ e.op \in NormalSteps => e.priority = {0}

\* with lookahead = 1 on three block columns a rank has issued the nine
\* operations of panel 0: panel, lookahead column 1, trailing column 2
C34_Witness ==
    /\ lookahead = 1 /\ A_nt = 3
    /\ \E p \in Procs :
          /\ {e.op : e \in {x \in Logged(p) : x.k = 0}} \cap (HighSteps \cup NormalSteps)
                = HighSteps \cup NormalSteps
          /\ \E e \in Logged(p) : e.op = "tgemm" /\ e.k = 0 /\ e.priority = {0}
          /\ \E e \in Logged(p) : e.op = "lgemm" /\ e.k = 0 /\ e.priority = {1}

\* the step of panel e.k that issued e: the panel step, the lookahead step of
\* a column, or the trailing step
StepOf(e) ==
    IF e.op \in {"ppermute", "ptrsm"} THEN <<"panel", e.k>>
    ELSE IF e.op \in {"lperm", "ltrsm", "lgemm"} THEN <<"lookahead", e.j1>>
    ELSE <<"trailing", e.k>>

\* C37: within one panel k the queue indices are 0 for the panel step, 1 for
\* the trailing step and j-k+1, between 2 and lookahead+1, for the lookahead
\* step on column j; operations of different steps never share an index
C37_QueuesDistinct ==
    \A p \in Procs : \A e \in Logged(p) :
        e.queue # {} =>
            /\ StepOf(e)[1] = "panel" => e.queue = {0}
            /\ StepOf(e)[1] = "trailing" => e.queue = {1}
            /\ StepOf(e)[1] = "lookahead" =>
                  /\ e.queue = {e.j1 - e.k + 1}
                  /\ e.queue \subseteq 2..(lookahead + 1)
            /\ \A f \in Logged(p) :
                  (f.queue # {} /\ f.k = e.k /\ StepOf(f) # StepOf(e)) => f.queue # e.queue

\* with lookahead = 1 on three block columns a rank has used the queues 0
\* (panel), 2 (lookahead column 1) and 1 (trailing column 2) in panel 0
C37_Witness ==
    /\ lookahead = 1 /\ A_nt = 3
    /\ \E p \in Procs :
          /\ \E e \in Logged(p) : e.op = "ptrsm" /\ e.k = 0 /\ e.queue = {0}
          /\ \E e \in Logged(p) : e.op = "lgemm" /\ e.k = 0 /\ e.j1 = 1 /\ e.queue = {2}
          /\ \E e \in Logged(p) : e.op = "tgemm" /\ e.k = 0 /\ e.j1 = 2 /\ e.queue = {1}

\* ---- gbsv: factor, then solve
\* C35: gbsv calls gbtrf, and gbtrs only once gbtrf has returned; gbtrs takes
\* the A and the pivots gbtrf left its result in; both get the same lookahead
\* and target, and only gbtrf gets inner blocking and max panel threads
C35_FactorThenSolve ==
    call.routine = "gbsv" =>
        /\ Len(call.calls) <= 2
        /\ call.stage = "solve" => Len(call.calls) = 1
        /\ \A x \in DOMAIN call.calls :
              call.calls[x].fn = (IF x = 1 THEN "gbtrf" ELSE "gbtrs")
        /\ Len(call.calls) = 2 =>
              LET f == call.calls[1]
                  g == call.calls[2] IN
              /\ {"A", "pivots"} \subseteq (f.operands.sets \cap g.operands.uses)
              /\ g.lookahead = f.lookahead /\ g.target = f.target
              /\ f.lookahead # Absent /\ f.target # Absent
              /\ f.ib # Absent /\ f.max_panel_threads # Absent
              /\ g.ib = Absent /\ g.max_panel_threads = Absent

\* a gbsv call with lookahead 2, inner blocking 1 and 3 panel threads on
\* Devices has returned after the factorization and the solve
C35_Witness ==
    /\ Returned /\ call.routine = "gbsv"
    /\ Len(call.calls) = 2
    /\ call.calls[1].fn = "gbtrf" /\ call.calls[1].lookahead = {2}
    /\ call.calls[1].ib = {1} /\ call.calls[1].max_panel_threads = {3}
    /\ call.calls[2].fn = "gbtrs" /\ call.calls[2].lookahead = {2}
    /\ call.calls[2].target = {"Devices"} /\ call.calls[2].ib = Absent

====
